---- MODULE Spec2Model ----
(***************************************************************************)
(* A model of the DataLakeQuality backend (backend/app): the drift         *)
(* analyzer with its baseline store (core/drift.py), the policy engine     *)
(* and the contract validator (core/contracts.py), the scoring engine      *)
(* (core/scoring.py), the profiler, the PII scanner, the outlier detector, *)
(* the alert builder, the run history (utils/history.py) and the analysis  *)
(* endpoint that sequences them (main.py).                                 *)
(*                                                                         *)
(* Number representation.  The code works in IEEE doubles; the model uses  *)
(* integers:                                                               *)
(*   - a cell of a column is <<>> (null, NaN) or <<v>> (the value v);      *)
(*     None is <<>> and Some(v) is <<v>> for every optional field;         *)
(*   - a bin share c/total is kept as the exact pair <<c, total>>;         *)
(*   - histogram bin edges are in tenths (EdgeScale), exact for the        *)
(*     integer values and the 5 equal-width bins of the model;             *)
(*   - means and relative changes are in thousandths (MeanScale);          *)
(*   - a PSI is in units of 1/10000 (PsiScale), natural logarithms come    *)
(*     from LnTable in the same unit;                                      *)
(*   - ratios of the summary are in thousandths, a quality score is in     *)
(*     thousandths of a point (ScoreScale).                                *)
(* The baseline's created_at timestamp is written but never read by the   *)
(* code and is left out of the stored record.                              *)
(***************************************************************************)
EXTENDS Integers, Sequences, FiniteSets, TLC

VARIABLES
    baselines,     \* the baselines directory: dataset name -> file content
    drift_call,    \* the latest analyze_drift call (arguments and return value)
    policy_call,   \* the latest evaluate_policy call
    score_call,    \* the latest compute_quality_score call
    contract_call, \* the latest validate_contract call
    gate_call,     \* two runs of the quality gate's contract, score and policy steps
    alerts_call,   \* the latest build_alerts call
    contract_files,\* the contracts directory: dataset name -> file content
    history,       \* the history directory: dataset name -> the run files in it
    clock,         \* the wall clock, in ticks
    analyze_call   \* the latest POST /analyze request and its response

vars == <<baselines, drift_call, policy_call, score_call, contract_call, gate_call,
          alerts_call, contract_files, history, clock, analyze_call>>

\* the calls of the validator components, and the state of the analysis service
validator_vars == <<contract_call, gate_call, alerts_call>>
service_vars == <<contract_files, history, clock, analyze_call>>

----------------------------------------------------------------------------
(* Bounds of the model *)

\* rows of a table
MaxRows == 3

----------------------------------------------------------------------------
(* Generic helpers *)

None == <<>>
Some(v) == <<v>>

Min2(a, b) == IF a <= b THEN a ELSE b
Max2(a, b) == IF a >= b THEN a ELSE b
Abs(a) == IF a < 0 THEN -a ELSE a

\* the sum of a sequence, by halves
RECURSIVE SumSeq(_)
SumSeq(s) ==
    IF s = <<>> THEN 0
    ELSE IF Len(s) = 1 THEN s[1]
    ELSE SumSeq(SubSeq(s, 1, Len(s) \div 2)) + SumSeq(SubSeq(s, Len(s) \div 2 + 1, Len(s)))

RECURSIVE MinSeq(_)
MinSeq(s) == IF Len(s) = 1 THEN s[1] ELSE Min2(Head(s), MinSeq(Tail(s)))

RECURSIVE MaxSeq(_)
MaxSeq(s) == IF Len(s) = 1 THEN s[1] ELSE Max2(Head(s), MaxSeq(Tail(s)))

\* floor(sqrt(n)) by bisection on [lo, hi]
RECURSIVE ISqrtIn(_, _, _)
ISqrtIn(n, lo, hi) ==
    IF lo >= hi THEN lo
    ELSE LET mid == (lo + hi + 1) \div 2
         IN IF mid * mid <= n THEN ISqrtIn(n, mid, hi) ELSE ISqrtIn(n, lo, mid - 1)

ISqrt(n) == ISqrtIn(n, 0, 40000)

----------------------------------------------------------------------------
(* Tables (pandas DataFrames) *)

\* pd.api.types.is_numeric_dtype
_is_numeric_series(dtype) == dtype \in {"int64", "float64", "bool"}

\* Series.dropna().to_numpy(dtype=float): the non-null values, in order
dropna(col) ==
    LET values == SelectSeq(col, LAMBDA cell : cell # None)
    IN [i \in 1..Len(values) |-> values[i][1]]

\* the dtype pandas gives a column of integers and nulls
NumericDtype(col) == IF \E i \in 1..Len(col) : col[i] = None THEN "float64" ELSE "int64"

\* the numeric columns of a table, in the table's column order
RECURSIVE NumericCols(_, _)
NumericCols(cols, dtypes) ==
    IF cols = <<>> THEN <<>>
    ELSE (IF _is_numeric_series(dtypes[Head(cols)]) THEN <<Head(cols)>> ELSE <<>>)
         \o NumericCols(Tail(cols), dtypes)

SeqToSet(s) == {s[i] : i \in 1..Len(s)}

----------------------------------------------------------------------------
(* core/drift.py: the drift analyzer and its baseline store *)

\* n_bins of _build_numeric_baseline
n_bins == 5
\* bin edges are kept in tenths
EdgeScale == 10
\* means and relative changes are kept in thousandths
MeanScale == 1000
\* a PSI and a logarithm are kept in units of 1/10000
PsiScale == 10000
\* bin shares enter the PSI in millionths; eps of _compute_psi is 1e-6
PpmScale == 1000000
eps == 1

\* math.log on the integers 1..10 and on 10^6, in units of 1/PsiScale
LnTable == <<0, 6931, 10986, 13863, 16094, 17918, 19459, 20794, 21972, 23026>>
LnMillion == 138155

\* float(values.mean())
Mean(values) == (SumSeq(values) * MeanScale) \div Len(values)

\* float(values.std(ddof=0)) if values.size > 1 else 0.0
\*   std = sqrt(n * sum(v^2) - sum(v)^2) / n
Std(values) ==
    IF Len(values) > 1
    THEN LET n  == Len(values)
             sq == [i \in 1..n |-> values[i] * values[i]]
             d  == n * SumSeq(sq) - SumSeq(values) * SumSeq(values)
         IN ISqrt(d * MeanScale * MeanScale) \div n
    ELSE 0

\* np.linspace(v_min, v_max, n_bins + 1), after the widening of a zero range
BinEdges(values) ==
    LET lo == MinSeq(values)
        hi == MaxSeq(values)
        v_min == IF lo = hi THEN lo * EdgeScale - EdgeScale \div 2 ELSE lo * EdgeScale
        v_max == IF lo = hi THEN hi * EdgeScale + EdgeScale \div 2 ELSE hi * EdgeScale
    IN [i \in 1..(n_bins + 1) |-> v_min + ((i - 1) * (v_max - v_min)) \div n_bins]

\* whether np.histogram counts value v in bin i of the edges: bins are
\* half-open [e_i, e_i+1) except the last, which is closed
InBin(v, edges, i) ==
    /\ edges[i] <= v * EdgeScale
    /\ \/ v * EdgeScale < edges[i + 1]
       \/ i = Len(edges) - 1 /\ v * EdgeScale = edges[i + 1]

\* np.histogram(values, bins=bin_edges)[0]
Histogram(values, edges) ==
    [i \in 1..(Len(edges) - 1) |->
        Cardinality({k \in 1..Len(values) : InBin(values[k], edges, i)})]

\* lines 59-63: the baseline's bin shares
BaselinePercentsByBins(hist_counts) ==
    [i \in 1..Len(hist_counts) |-> <<hist_counts[i], Len(hist_counts)>>]
BaselinePercents(hist_counts) ==
    LET total == SumSeq(hist_counts)
    IN IF total = 0
       THEN [i \in 1..n_bins |-> <<0, 1>>]
       ELSE [i \in 1..Len(hist_counts) |-> <<hist_counts[i], total>>]

\* lines 237-241: the current bin shares
CurrentPercents(hist_counts, bin_edges) ==
    LET total == SumSeq(hist_counts)
    IN IF total = 0
       THEN [i \in 1..(Len(bin_edges) - 1) |-> <<0, 1>>]
       ELSE [i \in 1..Len(hist_counts) |-> <<hist_counts[i], total>>]

\* the profile of one numeric column with a non-null value (lines 45-71)
ColumnProfile(values) ==
    LET bin_edges == BinEdges(values)
    IN [mean        |-> Mean(values),
        std         |-> Std(values),
        value_count |-> Len(values),
        bins        |-> bin_edges,
        percents    |-> BaselinePercents(Histogram(values, bin_edges))]

\* _build_numeric_baseline: numeric columns without a non-null value are skipped
_build_numeric_baseline(df) ==
    LET profiled == {c \in SeqToSet(NumericCols(df.columns, df.dtypes)) :
                        dropna(df.data[c]) # <<>>}
    IN [c \in profiled |-> ColumnProfile(dropna(df.data[c]))]

\* max(p, eps) in millionths, for a share p = <<c, total>>
Smooth(p) == Max2((p[1] * PpmScale) \div p[2], eps)

\* math.log(max(p, eps)) in units of 1/PsiScale
LnSmooth(p) ==
    IF Smooth(p) = eps THEN -LnMillion ELSE LnTable[p[1]] - LnTable[p[2]]

\* one term (p_s - q_s) * math.log(p_s / q_s); both factors have the same sign
PsiTerm(p, q) ==
    ((Abs(Smooth(p) - Smooth(q)) \div (PpmScale \div PsiScale))
        * Abs(LnSmooth(p) - LnSmooth(q))) \div PsiScale

\* _compute_psi: the sum over zip(current_percents, baseline_percents)
_compute_psi(baseline_percents, current_percents) ==
    LET n == Min2(Len(baseline_percents), Len(current_percents))
    IN SumSeq([i \in 1..n |-> PsiTerm(current_percents[i], baseline_percents[i])])

\* _psi_severity
_psi_severity(psi) ==
    IF psi * 100 < 10 * PsiScale THEN "none"
    ELSE IF psi * 100 < 25 * PsiScale THEN "moderate"
    ELSE "severe"

\* line 252: drift_flag = psi_value > 0.25
DriftFlagModerate(psi) == psi * 100 > 10 * PsiScale
DriftFlag(psi) == psi * 100 > 25 * PsiScale

\* lines 254-257
RelativeChange(current_mean, base_mean) ==
    IF base_mean # 0
    THEN Some(((current_mean - base_mean) * MeanScale) \div base_mean)
    ELSE None

----------------------------------------------------------------------------
(* The baseline store: baselines/<dataset_name>.json *)

\* file contents: no file, a file json.load cannot parse, or a baseline
AbsentFile == [kind |-> "absent"]
CorruptFile == [kind |-> "corrupt"]
JsonFile(baseline) == [kind |-> "json", content |-> baseline]

\* _load_baseline: None when the file is missing or cannot be parsed
_load_baseline_unguarded(store, dataset_name) ==
    IF store[dataset_name].kind = "absent" THEN None
    ELSE IF store[dataset_name].kind = "corrupt"
         THEN Some([dataset_name |-> dataset_name, columns |-> <<>>])
         ELSE Some(store[dataset_name].content)
_load_baseline(store, dataset_name) ==
    IF store[dataset_name].kind = "absent" THEN None
    ELSE IF store[dataset_name].kind = "corrupt" THEN None
         ELSE Some(store[dataset_name].content)

\* _save_baseline: path.write_text replaces the file
_save_baseline_skipped(store, dataset_name, baseline) == store
_save_baseline(store, dataset_name, baseline) ==
    [store EXCEPT ![dataset_name] = JsonFile(baseline)]

\* the marker returned by the run that creates the baseline (lines 181-185)
CreatedMarker == [baseline_created |-> TRUE, has_drift |-> FALSE, columns |-> <<>>]

\* lines 175-179: the baseline built from the current table
NewBaseline(dataset_name, df) ==
    [dataset_name |-> dataset_name, columns |-> _build_numeric_baseline(df)]

\* one iteration of the loop over numeric_cols (lines 193-269)
DriftColumn(col, df, baseline_cols) ==
    LET values == dropna(df.data[col])
    IN IF col \notin DOMAIN baseline_cols
       THEN [column          |-> col,
             baseline_mean   |-> None,
             current_mean    |-> IF values # <<>> THEN Some(Mean(values)) ELSE Some(0),
             relative_change |-> None,
             psi             |-> None,
             psi_severity    |-> "none",
             drift           |-> FALSE]
       ELSE LET base_info     == baseline_cols[col]
                base_mean     == base_info.mean
                base_bins     == base_info.bins
                base_percents == base_info.percents
            IN IF values = <<>> \/ base_bins = <<>> \/ base_percents = <<>>
               THEN [column          |-> col,
                     baseline_mean   |-> Some(base_mean),
                     current_mean    |-> None,
                     relative_change |-> None,
                     psi             |-> None,
                     psi_severity    |-> "none",
                     drift           |-> FALSE]
               ELSE LET current_mean     == Mean(values)
                        hist_counts      == Histogram(values, base_bins)
                        current_percents == CurrentPercents(hist_counts, base_bins)
                        same_shape       == Len(current_percents) = Len(base_percents)
                        psi_value        == _compute_psi(base_percents, current_percents)
                    IN [column          |-> col,
                        baseline_mean   |-> Some(base_mean),
                        current_mean    |-> Some(current_mean),
                        relative_change |-> RelativeChange(current_mean, base_mean),
                        psi             |-> IF same_shape THEN Some(psi_value) ELSE None,
                        psi_severity    |-> IF same_shape THEN _psi_severity(psi_value)
                                            ELSE "none",
                        drift           |-> IF same_shape THEN DriftFlag(psi_value)
                                            ELSE FALSE]

\* line 271: has_drift = any(col_info.get("drift") for col_info in drift_columns)
HasDrift(drift_columns) ==
    \E i \in 1..Len(drift_columns) : drift_columns[i].drift

\* lines 187-277: the comparison of the table with a loaded baseline
CompareToBaseline(baseline, df) ==
    LET baseline_cols == baseline.columns
        numeric_cols  == NumericCols(df.columns, df.dtypes)
        drift_columns == [i \in 1..Len(numeric_cols) |->
                             DriftColumn(numeric_cols[i], df, baseline_cols)]
    IN [baseline_created |-> FALSE,
        has_drift        |-> HasDrift(drift_columns),
        columns          |-> drift_columns]

\* analyze_drift: the store after the call and the returned value
analyze_drift_refreshing(store, dataset_name, df) ==
    LET baseline == _load_baseline(store, dataset_name)
    IN IF baseline = None
       THEN [store |-> _save_baseline(store, dataset_name, NewBaseline(dataset_name, df)),
             ret   |-> CreatedMarker]
       ELSE [store |-> _save_baseline(store, dataset_name, NewBaseline(dataset_name, df)),
             ret   |-> CompareToBaseline(baseline[1], df)]
analyze_drift(store, dataset_name, df) ==
    LET baseline == _load_baseline(store, dataset_name)
    IN IF baseline = None
       THEN [store |-> _save_baseline(store, dataset_name, NewBaseline(dataset_name, df)),
             ret   |-> CreatedMarker]
       ELSE [store |-> store,
             ret   |-> CompareToBaseline(baseline[1], df)]

----------------------------------------------------------------------------
(* The inputs of the drift specification *)

DatasetNames == {"sales"}

\* the non-null values a numeric cell takes
CellValues == {0, 1}

CellKey(cell) == IF cell = None THEN -1 ELSE cell[1]

\* a column of n cells, nulls first and values ascending (the drift analysis
\* reads a column only through its non-null values' mean and histogram)
SortedCells(n) ==
    {s \in [1..n -> {None} \cup {Some(v) : v \in CellValues}] :
        \A i \in 1..(n - 1) : CellKey(s[i]) <= CellKey(s[i + 1])}

\* tables with a numeric column x and, optionally, a second numeric column y
\* that holds only nulls; a table without rows has columns of dtype object
TablesOfRows(n) ==
    UNION {
        { [columns |-> <<"x">>,
           dtypes  |-> [c \in {"x"} |-> IF n = 0 THEN "object" ELSE NumericDtype(x)],
           data    |-> [c \in {"x"} |-> x]],
          [columns |-> <<"x", "y">>,
           dtypes  |-> [c \in {"x", "y"} |->
                          IF n = 0 THEN "object"
                          ELSE IF c = "x" THEN NumericDtype(x) ELSE "float64"],
           data    |-> [c \in {"x", "y"} |->
                          IF c = "x" THEN x ELSE [i \in 1..n |-> None]]] }
        : x \in SortedCells(n) }

DriftTables == UNION {TablesOfRows(n) : n \in 0..MaxRows}

NoCall == [op |-> "none"]

\* the validator components before any call, and the service before any request:
\* no contract file, no run file, the clock at its first tick
NoValidatorCalls ==
    /\ contract_call = NoCall
    /\ gate_call = NoCall
    /\ alerts_call = NoCall

IdleService ==
    /\ contract_files = [n \in DatasetNames |-> AbsentFile]
    /\ history = [n \in DatasetNames |-> {}]
    /\ clock = 0
    /\ analyze_call = NoCall

----------------------------------------------------------------------------
(* Actions of the drift specification *)

\* a request analyses table df under dataset_name; file_before records what
\* kind of baseline file the call found
AnalyzeDrift(dataset_name, df) ==
    LET r == analyze_drift(baselines, dataset_name, df)
    IN /\ baselines' = r.store
       /\ drift_call' = [op           |-> "analyze_drift",
                         dataset_name |-> dataset_name,
                         df           |-> df,
                         file_before  |-> baselines[dataset_name].kind,
                         ret          |-> r.ret]
       /\ UNCHANGED <<policy_call, score_call, validator_vars, service_vars>>

\* the environment damages an existing baseline file (a torn or foreign write)
CorruptBaseline(dataset_name) ==
    /\ baselines[dataset_name].kind = "json"
    /\ baselines' = [baselines EXCEPT ![dataset_name] = CorruptFile]
    /\ drift_call' = [op |-> "corrupt", dataset_name |-> dataset_name]
    /\ UNCHANGED <<policy_call, score_call, validator_vars, service_vars>>

InitDrift ==
    /\ baselines = [n \in DatasetNames |-> AbsentFile]
    /\ drift_call = NoCall
    /\ policy_call = NoCall
    /\ score_call = NoCall
    /\ NoValidatorCalls
    /\ IdleService

NextDrift ==
    \/ \E n \in DatasetNames, df \in DriftTables : AnalyzeDrift(n, df)
    \/ \E n \in DatasetNames : CorruptBaseline(n)

SpecDrift == InitDrift /\ [][NextDrift]_vars

----------------------------------------------------------------------------
(* core/scoring.py: the scoring engine *)

\* ratios are kept in thousandths, scores in thousandths of a point
RatioScale == 1000
ScoreScale == 1000

\* one penalty min(weight * amount, cap), in thousandths of a point
\* line 19: min(missing_ratio * 100 * 0.3, 30.0)
MissingPenalty(missing_ratio) ==
    Min2((missing_ratio * 30 * ScoreScale) \div RatioScale, 30 * ScoreScale)
\* line 22: min(duplicate_ratio * 100 * 0.2, 20.0)
DuplicatePenalty(duplicate_ratio) ==
    Min2((duplicate_ratio * 20 * ScoreScale) \div RatioScale, 20 * ScoreScale)
\* line 25: min(contract_violations * 5.0, 25.0)
ViolationPenalty(contract_violations) ==
    Min2(contract_violations * 5 * ScoreScale, 25 * ScoreScale)
\* line 28: min(pii_column_count * 5.0, 20.0)
PiiPenalty(pii_column_count) ==
    Min2(pii_column_count * 5 * ScoreScale, 20 * ScoreScale)
\* line 31: min(overall_outlier_ratio * 100 * 0.15, 15.0)
OutlierPenalty(overall_outlier_ratio) ==
    Min2((overall_outlier_ratio * 15 * ScoreScale) \div RatioScale, 15 * ScoreScale)
\* lines 34-35: 10 points if drift is present
DriftPenaltyNegated(has_drift) == IF has_drift THEN -10 * ScoreScale ELSE 0
DriftPenalty(has_drift) == IF has_drift THEN 10 * ScoreScale ELSE 0

\* line 37: score = max(0.0, min(100.0, score))
ClampScoreAbove(score) == Min2(100 * ScoreScale, score)
ClampScore(score) == Max2(0, Min2(100 * ScoreScale, score))

\* lines 39-44
ScoreLabelStrict(score) ==
    IF score > 80 * ScoreScale THEN "GREEN"
    ELSE IF score > 50 * ScoreScale THEN "YELLOW"
    ELSE "RED"
ScoreLabel(score) ==
    IF score >= 80 * ScoreScale THEN "GREEN"
    ELSE IF score >= 50 * ScoreScale THEN "YELLOW"
    ELSE "RED"

compute_quality_score(missing_ratio, duplicate_ratio, contract_violations, pii_column_count, overall_outlier_ratio, has_drift) ==
    LET s0 == 100 * ScoreScale
        s1 == s0 - MissingPenalty(missing_ratio)
        s2 == s1 - DuplicatePenalty(duplicate_ratio)
        s3 == s2 - ViolationPenalty(contract_violations)
        s4 == s3 - PiiPenalty(pii_column_count)
        s5 == s4 - OutlierPenalty(overall_outlier_ratio)
        s6 == s5 - DriftPenalty(has_drift)
        score == ClampScore(s6)
    IN [score |-> score, label |-> ScoreLabel(score)]

----------------------------------------------------------------------------
(* The scoring specification: one call on inputs drawn from bounded sets *)

\* ratios are the multiples of 1/RatioSteps in [0, 1]
RatioSteps == 4
\* contract violations and PII columns are counted up to MaxCount
MaxCount == 6

RatioGrid == {(i * RatioScale) \div RatioSteps : i \in 0..RatioSteps}

ScoreArgs ==
    [missing_ratio         : RatioGrid,
     duplicate_ratio       : RatioGrid,
     contract_violations   : 0..MaxCount,
     pii_column_count      : 0..MaxCount,
     overall_outlier_ratio : RatioGrid,
     has_drift             : BOOLEAN]

ScoreOf(a) ==
    compute_quality_score(a.missing_ratio, a.duplicate_ratio, a.contract_violations,
                          a.pii_column_count, a.overall_outlier_ratio, a.has_drift)

InitScore ==
    /\ baselines = [n \in DatasetNames |-> AbsentFile]
    /\ drift_call = NoCall
    /\ policy_call = NoCall
    /\ NoValidatorCalls
    /\ IdleService
    /\ \E a \in ScoreArgs :
         score_call = [op |-> "compute_quality_score", args |-> a, ret |-> None]

ComputeScore ==
    /\ score_call.op = "compute_quality_score"
    /\ score_call.ret = None
    /\ score_call' = [score_call EXCEPT !.ret = Some(ScoreOf(score_call.args))]
    /\ UNCHANGED <<baselines, drift_call, policy_call, validator_vars, service_vars>>

NextScore == ComputeScore

SpecScore == InitScore /\ [][NextScore]_vars

----------------------------------------------------------------------------
(* core/contracts.py: the policy engine *)

\* A contract is None or Some([policy |-> p]); p is None when the contract has
\* no policy key or an empty one (`if not policy`), else Some of a record
\*   [quality_threshold |-> None | Some(thousandths of a point),
\*    fail_on |-> None | Some([missing_ratio_gt, duplicate_ratio_gt,
\*        overall_outlier_ratio_gt |-> None | Some(thousandths),
\*        contract_violations_gt |-> None | Some(tenths),
\*        has_drift |-> None | Some(BOOLEAN),
\*        psi_severity_in |-> None | Some(sequence of severities)])].
\* A failure is the structured content of the appended message.

\* a contract_violations_gt threshold is kept in tenths
ViolationScale == 10

Failure(rule, subject, detail, value, limit) ==
    [rule |-> rule, subject |-> subject, detail |-> detail,
     value |-> value, limit |-> limit]

\* policy.get("fail_on", {}) or {}
NoFailOn ==
    [missing_ratio_gt |-> None, duplicate_ratio_gt |-> None,
     contract_violations_gt |-> None, overall_outlier_ratio_gt |-> None,
     has_drift |-> None, psi_severity_in |-> None]

FailOnOf(policy) == IF policy.fail_on = None THEN NoFailOn ELSE policy.fail_on[1]

\* lines 243-247
QualityThresholdRule(policy, quality_score) ==
    IF policy.quality_threshold # None /\ quality_score < policy.quality_threshold[1]
    THEN <<Failure("quality_threshold", "quality_score", "",
                   Some(quality_score), policy.quality_threshold)>>
    ELSE <<>>

\* lines 257-261
MissingRatioRuleInclusive(fail_on, summary) ==
    IF fail_on.missing_ratio_gt # None
       /\ summary.missing_ratio >= fail_on.missing_ratio_gt[1]
    THEN <<Failure("missing_ratio_gt", "missing_ratio", "",
                   Some(summary.missing_ratio), fail_on.missing_ratio_gt)>>
    ELSE <<>>
MissingRatioRule(fail_on, summary) ==
    IF fail_on.missing_ratio_gt # None
       /\ summary.missing_ratio > fail_on.missing_ratio_gt[1]
    THEN <<Failure("missing_ratio_gt", "missing_ratio", "",
                   Some(summary.missing_ratio), fail_on.missing_ratio_gt)>>
    ELSE <<>>

\* lines 264-268
DuplicateRatioRule(fail_on, summary) ==
    IF fail_on.duplicate_ratio_gt # None
       /\ summary.duplicate_ratio > fail_on.duplicate_ratio_gt[1]
    THEN <<Failure("duplicate_ratio_gt", "duplicate_ratio", "",
                   Some(summary.duplicate_ratio), fail_on.duplicate_ratio_gt)>>
    ELSE <<>>

\* int(cv_thr), for a threshold kept in tenths: truncation towards zero
IntTrunc(x) ==
    IF x >= 0 THEN x \div ViolationScale ELSE -((-x) \div ViolationScale)

\* lines 271-275: contract_violations > int(cv_thr)
ContractViolationsRule(fail_on, summary) ==
    IF fail_on.contract_violations_gt # None
       /\ summary.contract_violations > IntTrunc(fail_on.contract_violations_gt[1])
    THEN <<Failure("contract_violations_gt", "contract_violations", "",
                   Some(summary.contract_violations),
                   Some(IntTrunc(fail_on.contract_violations_gt[1])))>>
    ELSE <<>>

\* lines 278-282
OutlierRatioRule(fail_on, summary) ==
    IF fail_on.overall_outlier_ratio_gt # None
       /\ summary.overall_outlier_ratio > fail_on.overall_outlier_ratio_gt[1]
    THEN <<Failure("overall_outlier_ratio_gt", "overall_outlier_ratio", "",
                   Some(summary.overall_outlier_ratio), fail_on.overall_outlier_ratio_gt)>>
    ELSE <<>>

\* lines 285-287: require_drift_false is True and has_drift
HasDriftRule(fail_on, summary) ==
    IF fail_on.has_drift = Some(TRUE) /\ summary.has_drift
    THEN <<Failure("has_drift", "has_drift", "", None, None)>>
    ELSE <<>>

\* a scan of the drift columns that reports every match
RECURSIVE PsiScanAll(_, _)
PsiScanAll(columns, allowed) ==
    IF columns = <<>> THEN <<>>
    ELSE (IF Head(columns).psi_severity \in allowed
          THEN <<Failure("psi_severity_in", Head(columns).column,
                         Head(columns).psi_severity, Head(columns).psi, None)>>
          ELSE <<>>)
         \o PsiScanAll(Tail(columns), allowed)

\* lines 294-308: the scan of the drift columns, stopped at the first match
RECURSIVE PsiScan(_, _)
PsiScan(columns, allowed) ==
    IF columns = <<>> THEN <<>>
    ELSE IF Head(columns).psi_severity \in allowed
         THEN <<Failure("psi_severity_in", Head(columns).column,
                        Head(columns).psi_severity, Head(columns).psi, None)>>
         ELSE PsiScan(Tail(columns), allowed)

\* lines 290-308: `if psi_severity_in:` skips a missing and an empty list
PsiSeverityRule(fail_on, drift) ==
    IF fail_on.psi_severity_in # None /\ fail_on.psi_severity_in[1] # <<>>
    THEN PsiScan(drift.columns, SeqToSet(fail_on.psi_severity_in[1]))
    ELSE <<>>

\* lines 239-314: the rules of a policy, each evaluated, in order
EvaluateRules(policy, quality_score, summary, drift) ==
    LET fail_on  == FailOnOf(policy)
        failures == QualityThresholdRule(policy, quality_score)
                    \o MissingRatioRule(fail_on, summary)
                    \o DuplicateRatioRule(fail_on, summary)
                    \o ContractViolationsRule(fail_on, summary)
                    \o OutlierRatioRule(fail_on, summary)
                    \o HasDriftRule(fail_on, summary)
                    \o PsiSeverityRule(fail_on, drift)
    IN [pipeline_passed |-> failures = <<>>, failures |-> failures]

PolicyPassed == [pipeline_passed |-> TRUE, failures |-> <<>>]

\* a strict default policy: what a contract without a policy block must not get
StrictDefaultPolicy == [quality_threshold |-> Some(100 * ScoreScale), fail_on |-> None]

\* evaluate_policy
evaluate_policy_defaulting(contract, quality_score, summary, drift) ==
    IF contract = None THEN PolicyPassed
    ELSE IF contract[1].policy = None
         THEN EvaluateRules(StrictDefaultPolicy, quality_score, summary, drift)
         ELSE EvaluateRules(contract[1].policy[1], quality_score, summary, drift)
evaluate_policy(contract, quality_score, summary, drift) ==
    IF contract = None THEN PolicyPassed
    ELSE IF contract[1].policy = None THEN PolicyPassed
         ELSE EvaluateRules(contract[1].policy[1], quality_score, summary, drift)

----------------------------------------------------------------------------
(* The policy specification: one call on inputs drawn from bounded sets *)

\* drift columns handed to the policy engine
MaxDriftCols == 2
\* contract violations of the summary are 0..MaxViolations
MaxViolations == 2

Opt(S) == {None} \cup {Some(v) : v \in S}

\* thresholds: 0.1 for the ratios (and none), 0 and 1.5 violations, 75 points
FailOns ==
    [missing_ratio_gt         : Opt({100}),
     duplicate_ratio_gt       : Opt({100}),
     contract_violations_gt   : Opt({0, 15}),
     overall_outlier_ratio_gt : Opt({100}),
     has_drift                : Opt(BOOLEAN),
     psi_severity_in          : Opt({<<>>, <<"severe">>, <<"severe", "moderate">>})]

Policies ==
    [quality_threshold : Opt({75 * ScoreScale}),
     fail_on           : Opt(FailOns)]

Contracts == {None, Some([policy |-> None])} \cup {Some([policy |-> Some(p)]) : p \in Policies}

\* summaries: a missing ratio of 0.1 (at the threshold) or 0.15 (above it)
Summaries ==
    [missing_ratio         : {100, 150},
     duplicate_ratio       : {150},
     contract_violations   : 0..MaxViolations,
     overall_outlier_ratio : {150},
     has_drift             : BOOLEAN]

\* a drift column of each severity, as the drift analyzer reports it
DriftColumnOf(name, severity) ==
    [column |-> name, psi_severity |-> severity,
     psi |-> IF severity = "none" THEN None
             ELSE IF severity = "moderate" THEN Some(1154) ELSE Some(69063)]

ColumnNames == <<"c1", "c2", "c3", "c4">>

DriftResults ==
    {[columns |-> [i \in 1..Len(sev) |-> DriftColumnOf(ColumnNames[i], sev[i])]] :
        sev \in UNION {[1..m -> {"none", "moderate", "severe"}] : m \in 0..MaxDriftCols}}

InitPolicy ==
    /\ baselines = [n \in DatasetNames |-> AbsentFile]
    /\ drift_call = NoCall
    /\ score_call = NoCall
    /\ NoValidatorCalls
    /\ IdleService
    /\ \E c \in Contracts, q \in {74900, 75000}, sm \in Summaries, d \in DriftResults :
         policy_call = [op |-> "evaluate_policy", contract |-> c, quality_score |-> q,
                        summary |-> sm, drift |-> d, ret |-> None]

EvaluatePolicy ==
    /\ policy_call.op = "evaluate_policy"
    /\ policy_call.ret = None
    /\ policy_call' = [policy_call EXCEPT !.ret =
                         Some(evaluate_policy(policy_call.contract, policy_call.quality_score,
                                              policy_call.summary, policy_call.drift))]
    /\ UNCHANGED <<baselines, drift_call, score_call, validator_vars, service_vars>>

NextPolicy == EvaluatePolicy

SpecPolicy == InitPolicy /\ [][NextPolicy]_vars

----------------------------------------------------------------------------
(* Tables as pd.read_csv builds them *)

\* How the non-null cells of a CSV column are written: "whole" (integer
\* literals), "decimal" (literals with a fractional part) or "text".  A cell
\* <<v>> of a column holds the v-th literal of the column's kind: two cells of
\* one column are equal values iff they are equal cells.
ValueKinds == {"whole", "decimal", "text"}

\* the dtype read_csv gives a column: object for a table without rows, float64
\* for a column that holds only nulls, object for text, float64 for decimals
\* and for whole numbers with a null among them, int64 for whole numbers
read_csv_dtype(kind, col) ==
    IF Len(col) = 0 THEN "object"
    ELSE IF \A i \in 1..Len(col) : col[i] = None THEN "float64"
    ELSE IF kind = "text" THEN "object"
    ELSE IF kind = "decimal" THEN "float64"
    ELSE NumericDtype(col)

\* df.shape[0]
RowCount(df) == IF df.columns = <<>> THEN 0 ELSE Len(df.data[df.columns[1]])

\* the i-th row of a table
Row(df, i) == [c \in SeqToSet(df.columns) |-> df.data[c][i]]

\* the cells of a column that hold a value
MissingCountOfValues(col) == Cardinality({i \in 1..Len(col) : col[i] # None})

\* Series.isna().sum()
MissingCount(col) == Cardinality({i \in 1..Len(col) : col[i] = None})

\* the rows equal to the row just before them
DuplicatedRowsAdjacent(df) ==
    Cardinality({i \in 2..RowCount(df) : Row(df, i) = Row(df, i - 1)})

\* df.duplicated().sum(): the rows that repeat an earlier row of the table
DuplicatedRows(df) == RowCount(df) - Cardinality({Row(df, i) : i \in 1..RowCount(df)})

\* Series.duplicated().sum(): the cells that repeat an earlier cell of the
\* column; pandas takes two nulls as equal
DuplicatedCount(col) == Len(col) - Cardinality(SeqToSet(col))

\* Series.nunique(dropna=True)
UniqueCount(col) == Cardinality(SeqToSet(col) \ {None})

----------------------------------------------------------------------------
(* utils/io.py: infer_simple_type, and core/profiling.py *)

\* pd.api.types.is_integer_dtype / is_float_dtype / is_datetime64_any_dtype
is_integer_dtype(dtype) == dtype = "int64"
is_float_dtype(dtype) == dtype = "float64"
is_datetime64_any_dtype(dtype) == dtype = "datetime64[ns]"

infer_simple_type(dtype) ==
    IF is_integer_dtype(dtype) THEN "integer"
    ELSE IF is_float_dtype(dtype) THEN "number"
    ELSE IF is_datetime64_any_dtype(dtype) THEN "date"
    ELSE "string"

\* a ratio count/total is kept as the exact pair <<count, total>>; the ratio 0.0
\* of an empty table is <<0, 1>>
Ratio(count, total) == <<count, total>>
ZeroRatio == Ratio(0, 1)

\* profile_dataset: the summary and the column-level profile.  The numeric
\* statistics of column_stats (min, max, mean, std) are read by no other stage
\* and are left out.
profile_dataset(df) ==
    LET cols          == SeqToSet(df.columns)
        n_rows        == RowCount(df)
        n_cols        == Len(df.columns)
        total_cells   == Max2(n_rows * n_cols, 1)
        missing_by_column == [c \in cols |-> MissingCount(df.data[c])]
        total_missing == SumSeq([i \in 1..n_cols |-> missing_by_column[df.columns[i]]])
        duplicate_rows == DuplicatedRows(df)
        inferred_types == [c \in cols |-> infer_simple_type(df.dtypes[c])]
    IN [summary |->
          [row_count           |-> n_rows,
           column_count        |-> n_cols,
           total_missing_cells |-> total_missing,
           missing_ratio       |-> Ratio(total_missing, total_cells),
           duplicate_rows      |-> duplicate_rows,
           duplicate_ratio     |-> IF n_rows > 0 THEN Ratio(duplicate_rows, n_rows)
                                   ELSE ZeroRatio],
        basic_profile |->
          [missing_by_column |-> missing_by_column,
           inferred_types    |-> inferred_types,
           column_stats      |-> [c \in cols |->
                                    [inferred_type |-> inferred_types[c],
                                     missing_count |-> missing_by_column[c],
                                     unique_count  |-> UniqueCount(df.data[c])]]]]

----------------------------------------------------------------------------
(* core/contracts.py: validate_contract *)

\* [c for c in required_columns if c not in existing_cols]
MissingRequired(required_columns, existing_cols) ==
    SelectSeq(required_columns, LAMBDA c : c \notin existing_cols)

\* [c for c in required_columns if c in existing_cols]
PresentRequired(required_columns, existing_cols) ==
    SelectSeq(required_columns, LAMBDA c : c \in existing_cols)

\* the type checks: column_types is the contract's mapping as the sequence of
\* its (column, expected type) items
RECURSIVE TypeMismatches(_, _)
TypeMismatches(column_types, df) ==
    IF column_types = <<>> THEN <<>>
    ELSE LET col           == Head(column_types)[1]
             expected_type == Head(column_types)[2]
         IN (IF col \notin SeqToSet(df.columns) THEN <<>>
             ELSE LET actual_type == infer_simple_type(df.dtypes[col])
                  IN IF expected_type # actual_type
                     THEN <<[column |-> col, expected |-> expected_type,
                             actual |-> actual_type]>>
                     ELSE <<>>)
            \o TypeMismatches(Tail(column_types), df)

\* the uniqueness checks
RECURSIVE UniqueViolations(_, _)
UniqueViolations(unique_keys, df) ==
    IF unique_keys = <<>> THEN <<>>
    ELSE LET col == Head(unique_keys)
         IN (IF col \notin SeqToSet(df.columns) THEN <<>>
             ELSE LET dup_count == DuplicatedCount(df.data[col])
                  IN IF dup_count > 0
                     THEN <<[column |-> col, duplicate_count |-> dup_count]>>
                     ELSE <<>>)
            \o UniqueViolations(Tail(unique_keys), df)

ContractPassedOnColumns(missing_required, type_mismatches, unique_violations) == Len(missing_required) = 0

ContractPassed(missing_required, type_mismatches, unique_violations) ==
    /\ Len(missing_required) = 0
    /\ Len(type_mismatches) = 0
    /\ Len(unique_violations) = 0

validate_contract(df, contract) ==
    LET existing_cols     == SeqToSet(df.columns)
        missing_required  == MissingRequired(contract.required_columns, existing_cols)
        present_required  == PresentRequired(contract.required_columns, existing_cols)
        type_mismatches   == TypeMismatches(contract.column_types, df)
        unique_violations == UniqueViolations(contract.unique_keys, df)
    IN [contract_name     |-> contract.dataset_name,
        required_columns  |-> [present |-> present_required, missing |-> missing_required],
        type_mismatches   |-> type_mismatches,
        unique_violations |-> unique_violations,
        passed |-> ContractPassed(missing_required, type_mismatches, unique_violations)]

----------------------------------------------------------------------------
(* The contract validator's specification: validate_contract and            *)
(* profile_dataset applied to one table, as the quality gate applies them   *)

\* a column of n cells over the null and the column's first two literals
Cells(n) == [1..n -> {None} \cup {Some(v) : v \in CellValues}]

\* a table from its columns' kinds and cells
CsvTable(columns, kinds, data) ==
    [columns |-> columns,
     kinds   |-> kinds,
     dtypes  |-> [c \in SeqToSet(columns) |-> read_csv_dtype(kinds[c], data[c])],
     data    |-> data]

\* tables with a column id of any kind and, optionally, a text column v that
\* holds either a different literal in every row or the same literal in all
ContractTablesOfRows(n) ==
    UNION {
        { CsvTable(<<"id">>, [c \in {"id"} |-> k], [c \in {"id"} |-> id]),
          CsvTable(<<"id", "v">>, [c \in {"id", "v"} |-> IF c = "id" THEN k ELSE "text"],
                   [c \in {"id", "v"} |-> IF c = "id" THEN id ELSE [i \in 1..n |-> Some(i)]]),
          CsvTable(<<"id", "v">>, [c \in {"id", "v"} |-> IF c = "id" THEN k ELSE "text"],
                   [c \in {"id", "v"} |-> IF c = "id" THEN id ELSE [i \in 1..n |-> Some(0)]]) }
        : k \in ValueKinds, id \in Cells(n) }

ContractTables == UNION {ContractTablesOfRows(n) : n \in 0..MaxRows}

\* contracts over the columns id and v of the tables and the columns zip and
\* age that no table has
ContractSchemas ==
    [dataset_name     : {Some("sales")},
     required_columns : {<<>>, <<"id">>, <<"zip">>, <<"zip", "id", "age", "v">>},
     column_types     : {<<>>, <<<<"id", "integer">>>>, <<<<"zip", "string">>>>,
                         <<<<"id", "number">>, <<"v", "string">>>>},
     unique_keys      : {<<>>, <<"id">>, <<"zip">>, <<"v", "id">>}]

InitContract ==
    /\ baselines = [n \in DatasetNames |-> AbsentFile]
    /\ drift_call = NoCall
    /\ policy_call = NoCall
    /\ score_call = NoCall
    /\ gate_call = NoCall
    /\ alerts_call = NoCall
    /\ IdleService
    /\ \E df \in ContractTables, c \in ContractSchemas :
         contract_call = [op |-> "validate_contract", df |-> df, contract |-> c,
                          profile |-> None, ret |-> None]

\* the profiler runs on the table
ProfileDataset ==
    /\ contract_call.op = "validate_contract"
    /\ contract_call.profile = None
    /\ contract_call' = [contract_call EXCEPT !.profile = Some(profile_dataset(contract_call.df))]
    /\ UNCHANGED <<baselines, drift_call, policy_call, score_call, gate_call, alerts_call,
                   service_vars>>

\* the validator runs on the table
ValidateContract ==
    /\ contract_call.op = "validate_contract"
    /\ contract_call.ret = None
    /\ contract_call' = [contract_call EXCEPT
                           !.ret = Some(validate_contract(contract_call.df,
                                                          contract_call.contract))]
    /\ UNCHANGED <<baselines, drift_call, policy_call, score_call, gate_call, alerts_call,
                   service_vars>>

NextContract ==
    \/ ProfileDataset
    \/ ValidateContract

SpecContract == InitContract /\ [][NextContract]_vars

----------------------------------------------------------------------------
(* core/quality_gate.py: the contract, score and summary steps of           *)
(* run_quality_gate, followed by the policy engine on their results         *)

\* an exact ratio as the thousandths the scoring and policy engines work in
RatioOf(ratio) == (ratio[1] * RatioScale) \div ratio[2]

\* lines 46-53: the contract result of a dataset without a contract file
NoContractResult ==
    [contract_name     |-> None,
     required_columns  |-> [present |-> <<>>, missing |-> <<>>],
     type_mismatches   |-> <<>>,
     unique_violations |-> <<>>,
     passed            |-> FALSE]

\* lines 44-56: contract_result
ContractResult(contract_obj, df) ==
    IF contract_obj = None THEN NoContractResult
    ELSE validate_contract(df, contract_obj[1])

\* lines 54-61: contract_violations
ContractViolations(contract_obj, contract_result) ==
    IF contract_obj = None THEN 0
    ELSE Len(contract_result.required_columns.missing)
         + Len(contract_result.type_mismatches)
         + Len(contract_result.unique_violations)

\* lines 87-93: summary_extended, the ratios in thousandths
SummaryExtended(summary, pii_column_count, contract_violations, overall_outlier_ratio, has_drift) ==
    [row_count             |-> summary.row_count,
     column_count          |-> summary.column_count,
     total_missing_cells   |-> summary.total_missing_cells,
     missing_ratio         |-> RatioOf(summary.missing_ratio),
     duplicate_rows        |-> summary.duplicate_rows,
     duplicate_ratio       |-> RatioOf(summary.duplicate_ratio),
     pii_column_count      |-> pii_column_count,
     contract_violations   |-> contract_violations,
     overall_outlier_ratio |-> overall_outlier_ratio,
     has_drift             |-> has_drift]

\* a gate that charges a failed validation as drift
GateStepsReadingPassed(contract_obj, df, pii_column_count, overall_outlier_ratio, drift_result) ==
    LET summary             == profile_dataset(df).summary
        contract_result     == ContractResult(contract_obj, df)
        contract_violations == ContractViolations(contract_obj, contract_result)
        has_drift           == drift_result.has_drift \/ ~contract_result.passed
        score_obj           == compute_quality_score(RatioOf(summary.missing_ratio),
                                   RatioOf(summary.duplicate_ratio), contract_violations,
                                   pii_column_count, overall_outlier_ratio, has_drift)
        summary_extended    == SummaryExtended(summary, pii_column_count,
                                   contract_violations, overall_outlier_ratio, has_drift)
    IN [contract      |-> contract_result,
        quality_score |-> score_obj.score,
        quality_label |-> score_obj.label,
        summary       |-> summary_extended,
        policy        |-> evaluate_policy(contract_obj, score_obj.score, summary_extended,
                                          drift_result)]

\* lines 30-93 for a table whose PII, outlier and drift results are given:
\* profile, contract result, violation count, score and extended summary; and
\* the verdict of evaluate_policy on the contract, that score, that summary and
\* the drift result
GateSteps(contract_obj, df, pii_column_count, overall_outlier_ratio, drift_result) ==
    LET summary             == profile_dataset(df).summary
        contract_result     == ContractResult(contract_obj, df)
        contract_violations == ContractViolations(contract_obj, contract_result)
        has_drift           == drift_result.has_drift
        score_obj           == compute_quality_score(RatioOf(summary.missing_ratio),
                                   RatioOf(summary.duplicate_ratio), contract_violations,
                                   pii_column_count, overall_outlier_ratio, has_drift)
        summary_extended    == SummaryExtended(summary, pii_column_count,
                                   contract_violations, overall_outlier_ratio, has_drift)
    IN [contract      |-> contract_result,
        quality_score |-> score_obj.score,
        quality_label |-> score_obj.label,
        summary       |-> summary_extended,
        policy        |-> evaluate_policy(contract_obj, score_obj.score, summary_extended,
                                          drift_result)]

----------------------------------------------------------------------------
(* The quality gate's specification: two runs under one contract on tables  *)
(* with the same profile summary and the same PII, outlier and drift results *)

\* rows of the tables of the two runs
GateRows == 2

\* one-column tables of GateRows rows
GateTables ==
    {CsvTable(<<"id">>, [c \in {"id"} |-> k], [c \in {"id"} |-> id]) :
        k \in ValueKinds, id \in Cells(GateRows)}

\* rules on the missing ratio (0.1), on the violation count (0) and on drift
GateFailOns ==
    [missing_ratio_gt         : Opt({100}),
     duplicate_ratio_gt       : {None},
     contract_violations_gt   : Opt({0}),
     overall_outlier_ratio_gt : {None},
     has_drift                : Opt({TRUE}),
     psi_severity_in          : {None}]

\* contracts with a policy block that declare the type integer and a unique
\* key for the column id; a threshold of 98 points or none
GateContracts ==
    {Some(c) : c \in
        [dataset_name     : {Some("sales")},
         required_columns : {<<>>},
         column_types     : {<<<<"id", "integer">>>>},
         unique_keys      : {<<"id">>},
         policy           : {Some(p) : p \in [quality_threshold : Opt({98 * ScoreScale}),
                                               fail_on : {Some(f) : f \in GateFailOns}]}]}

\* the drift results of a first and of a drifted later analysis
GateDriftResults ==
    {CreatedMarker,
     [baseline_created |-> FALSE, has_drift |-> TRUE,
      columns |-> <<DriftColumnOf("id", "severe")>>]}

InitGate ==
    /\ baselines = [n \in DatasetNames |-> AbsentFile]
    /\ drift_call = NoCall
    /\ policy_call = NoCall
    /\ score_call = NoCall
    /\ contract_call = NoCall
    /\ alerts_call = NoCall
    /\ IdleService
    /\ \E a \in GateTables, b \in GateTables :
         /\ profile_dataset(a).summary = profile_dataset(b).summary
         /\ \E c \in GateContracts, d \in GateDriftResults :
              gate_call = [op |-> "run_quality_gate", contract |-> c, df_a |-> a, df_b |-> b,
                           pii_column_count |-> 0, overall_outlier_ratio |-> 0,
                           drift |-> d, ret_a |-> None, ret_b |-> None]

\* the run on table df_a
RunGateA ==
    /\ gate_call.op = "run_quality_gate"
    /\ gate_call.ret_a = None
    /\ gate_call' = [gate_call EXCEPT
                       !.ret_a = Some(GateSteps(gate_call.contract, gate_call.df_a,
                                                gate_call.pii_column_count,
                                                gate_call.overall_outlier_ratio,
                                                gate_call.drift))]
    /\ UNCHANGED <<baselines, drift_call, policy_call, score_call, contract_call,
                   alerts_call, service_vars>>

\* the run on table df_b
RunGateB ==
    /\ gate_call.op = "run_quality_gate"
    /\ gate_call.ret_b = None
    /\ gate_call' = [gate_call EXCEPT
                       !.ret_b = Some(GateSteps(gate_call.contract, gate_call.df_b,
                                                gate_call.pii_column_count,
                                                gate_call.overall_outlier_ratio,
                                                gate_call.drift))]
    /\ UNCHANGED <<baselines, drift_call, policy_call, score_call, contract_call,
                   alerts_call, service_vars>>

NextGate ==
    \/ RunGateA
    \/ RunGateB

SpecGate == InitGate /\ [][NextGate]_vars

----------------------------------------------------------------------------
(* core/alerts.py: build_alerts *)

\* A Python dict is a function from its keys: dict.get(key, default) is Get,
\* {**a, **b} is Merge, the empty dict is <<>>.
Get(d, key, default) == IF key \in DOMAIN d THEN d[key] ELSE default

Merge(a, b) == [k \in DOMAIN a \cup DOMAIN b |-> IF k \in DOMAIN b THEN b[k] ELSE a[k]]

EmptyDict == <<>>

\* the warn thresholds 5%, 5% and 2%, as exact ratios
MISSING_WARN_THRESHOLD == Ratio(5, 100)
OUTLIER_WARN_THRESHOLD == Ratio(5, 100)
DUPLICATE_WARN_THRESHOLD == Ratio(2, 100)

\* a > b on exact ratios
RatioGt(a, b) == a[1] * b[2] > b[1] * a[2]

\* _safe_float: None becomes the default 0.0
_safe_float(x) == IF x = None THEN ZeroRatio ELSE x

\* an alert; subject stands for the message: the columns or the policy
\* message it names
AlertDict(level, code, subject) == [level |-> level, code |-> code, subject |-> subject]

\* str.upper on the policy codes of the model
Upper(code) == IF code = "low_score" THEN "LOW_SCORE" ELSE code

\* lines 62-96: the dataset-level alerts
DatasetAlerts(raw, summary) ==
    LET missing_ratio   == _safe_float(Get(raw, "missing_ratio",
                                           Get(summary, "missing_ratio", ZeroRatio)))
        outlier_ratio   == _safe_float(Get(raw, "outlier_ratio",
                                           Get(raw, "overall_outlier_ratio", ZeroRatio)))
        duplicate_ratio == _safe_float(Get(summary, "duplicate_ratio", ZeroRatio))
    IN (IF RatioGt(missing_ratio, MISSING_WARN_THRESHOLD)
        THEN <<AlertDict("warning", "HIGH_MISSING_RATIO", {})>> ELSE <<>>)
       \o (IF RatioGt(outlier_ratio, OUTLIER_WARN_THRESHOLD)
           THEN <<AlertDict("warning", "HIGH_OUTLIER_RATIO", {})>> ELSE <<>>)
       \o (IF RatioGt(duplicate_ratio, DUPLICATE_WARN_THRESHOLD)
           THEN <<AlertDict("warning", "HIGH_DUPLICATE_RATIO", {})>> ELSE <<>>)

\* line 103: c.get("name") or c.get("column") or "<unknown>"
ColumnName(c) ==
    IF "name" \in DOMAIN c THEN c.name
    ELSE IF "column" \in DOMAIN c THEN c.column
    ELSE "<unknown>"

\* lines 105-155: the alerts of one entry of columns
ColumnAlerts(c) ==
    LET name == ColumnName(c)
    IN (IF "drift_severity" \in DOMAIN c /\ c.drift_severity \in {"moderate", "severe"}
        THEN <<AlertDict(IF c.drift_severity = "severe" THEN "error" ELSE "warning",
                         "DRIFT_DETECTED", {name})>>
        ELSE <<>>)
       \o (IF "pii_type" \in DOMAIN c
           THEN <<AlertDict("warning", "PII_DETECTED_COLUMN", {name})>> ELSE <<>>)
       \o (IF "missing_ratio" \in DOMAIN c
              /\ RatioGt(c.missing_ratio, MISSING_WARN_THRESHOLD)
           THEN <<AlertDict("warning", "COLUMN_MISSING_HIGH", {name})>> ELSE <<>>)

\* lines 99-155: the column-level alerts, in the order of columns
RECURSIVE ColumnsAlerts(_)
ColumnsAlerts(columns) ==
    IF columns = <<>> THEN <<>>
    ELSE ColumnAlerts(Head(columns)) \o ColumnsAlerts(Tail(columns))

\* lines 158-190: the PII summary alert
PiiAlerts(raw) ==
    LET pii_columns == Get(raw, "pii_columns", <<>>)
        has_pii     == \/ Get(raw, "has_pii", FALSE)
                       \/ Get(raw, "pii_column_count", 0) > 0
                       \/ Len(pii_columns) > 0
        names       == {pii_columns[i].column :
                          i \in {j \in 1..Len(pii_columns) : "column" \in DOMAIN pii_columns[j]}}
    IN IF has_pii THEN <<AlertDict("warning", "PII_DETECTED", names)>> ELSE <<>>

\* lines 193-204: one error alert per policy failure
RECURSIVE PolicyFailureAlerts(_)
PolicyFailureAlerts(policy_failures) ==
    IF policy_failures = <<>> THEN <<>>
    ELSE LET p == Head(policy_failures)
         IN <<AlertDict("error", "POLICY_" \o Upper(Get(p, "code", "UNKNOWN")),
                        {Get(p, "message", "Policy failure")})>>
            \o PolicyFailureAlerts(Tail(policy_failures))

\* lines 206-217: a failed policy without listed failures
PipelineFailedAlerts(raw) ==
    IF ~Get(raw, "policy_passed", TRUE) /\ Get(raw, "policy_failures", <<>>) = <<>>
    THEN <<AlertDict("error", "PIPELINE_FAILED", {})>>
    ELSE <<>>

ALL_GOOD == AlertDict("info", "ALL_GOOD", {})

\* lines 220-227: the fallback
FallbackAlways(alerts) == alerts \o <<ALL_GOOD>>

Fallback(alerts) == IF alerts = <<>> THEN <<ALL_GOOD>> ELSE alerts

\* the alerts of every rule but the fallback
RuleAlerts(raw) ==
    DatasetAlerts(raw, Get(raw, "summary", EmptyDict))
    \o ColumnsAlerts(Get(raw, "columns", <<>>))
    \o PiiAlerts(raw)
    \o PolicyFailureAlerts(Get(raw, "policy_failures", <<>>))
    \o PipelineFailedAlerts(raw)

build_alerts(report) == Fallback(RuleAlerts(report))

----------------------------------------------------------------------------
(* The alert builder's specification: one call on a report drawn from       *)
(* bounded sets                                                             *)

\* entries of the report's columns list
MaxAlertCols == 1

\* a dict that has the key with one of the values, or lacks it
OptKey(key, values) == {EmptyDict} \cup {[k \in {key} |-> v] : v \in values}

\* a quiet column, columns with moderate and with severe drift, a column with
\* a PII type, one with 6% missing cells, and one with all three findings
AlertColumns ==
    { [name |-> "a"],
      [name |-> "b", drift_severity |-> "moderate", psi |-> 1154],
      [column |-> "c", drift_severity |-> "severe", psi |-> 69063],
      [name |-> "d", pii_type |-> "email"],
      [name |-> "e", drift_severity |-> "none", missing_ratio |-> Ratio(6, 100)],
      [drift_severity |-> "severe", pii_type |-> "phone", missing_ratio |-> Ratio(5, 100)] }

AlertColumnLists == UNION {[1..n -> AlertColumns] : n \in 0..MaxAlertCols}

\* policy failures with and without a code
AlertPolicyFailures ==
    { <<>>,
      <<[code |-> "low_score", message |-> "score below threshold"]>>,
      <<[code |-> "low_score", message |-> "score below threshold"],
        [message |-> "drift"]>> }

\* reports: every part present or absent; ratios at and above the thresholds
AlertReports ==
    { Merge(s, Merge(m, Merge(o, Merge(c, Merge(h, Merge(n, Merge(p, Merge(f, v)))))))) :
        s \in OptKey("summary", {[missing_ratio |-> Ratio(6, 100),
                                  duplicate_ratio |-> Ratio(3, 100)],
                                 [duplicate_ratio |-> Ratio(2, 100)]}),
        m \in OptKey("missing_ratio", {Ratio(5, 100)}),
        o \in {EmptyDict, [outlier_ratio |-> Ratio(6, 100)],
               [overall_outlier_ratio |-> Ratio(6, 100)]},
        c \in OptKey("columns", AlertColumnLists),
        h \in OptKey("has_pii", {TRUE}),
        n \in OptKey("pii_column_count", {1}),
        p \in OptKey("pii_columns", {<<[column |-> "email"]>>,
                                     <<[detected_types |-> <<"email">>]>>}),
        f \in OptKey("policy_failures", AlertPolicyFailures),
        v \in OptKey("policy_passed", BOOLEAN) }

InitAlerts ==
    /\ baselines = [n \in DatasetNames |-> AbsentFile]
    /\ drift_call = NoCall
    /\ policy_call = NoCall
    /\ score_call = NoCall
    /\ contract_call = NoCall
    /\ gate_call = NoCall
    /\ IdleService
    /\ \E report \in AlertReports :
         alerts_call = [op |-> "build_alerts", report |-> report, ret |-> None]

BuildAlerts ==
    /\ alerts_call.op = "build_alerts"
    /\ alerts_call.ret = None
    /\ alerts_call' = [alerts_call EXCEPT !.ret = Some(build_alerts(alerts_call.report))]
    /\ UNCHANGED <<baselines, drift_call, policy_call, score_call, contract_call, gate_call,
                   service_vars>>

NextAlerts == BuildAlerts

SpecAlerts == InitAlerts /\ [][NextAlerts]_vars

----------------------------------------------------------------------------
(* core/pii.py: detect_pii *)

\* the literals of a text column: an email address, a phone number, a long
\* number after a word, and a word
TextLiteral(v) ==
    IF v = 1 THEN "alice@example.com"
    ELSE IF v = 2 THEN "+1 555-010-9999"
    ELSE IF v = 3 THEN "id 4111111111111111"
    ELSE "unknown"

\* EMAIL_RE.search, PHONE_RE.search and ID_RE.search on the text literals: a
\* run of ten to sixteen digits is also a digit, seven or more digits, a digit
EMAIL_RE(text) == text = "alice@example.com"
PHONE_RE(text) == text \in {"+1 555-010-9999", "id 4111111111111111"}
ID_RE(text) == text = "id 4111111111111111"

\* the cap of the sample
sample_size == 200

\* the finding of one column with the first of the matched types only
PiiColumnFirstType(df, col) ==
    IF df.dtypes[col] # "object" THEN <<>>
    ELSE LET codes == dropna(df.data[col])
             texts == {TextLiteral(codes[i]) : i \in 1..Min2(sample_size, Len(codes))}
             detected_types ==
                 IF \E t \in texts : EMAIL_RE(t) THEN <<"email">>
                 ELSE IF \E t \in texts : PHONE_RE(t) THEN <<"phone">>
                 ELSE IF \E t \in texts : ID_RE(t) THEN <<"id_number">>
                 ELSE <<>>
         IN IF codes = <<>> \/ detected_types = <<>> THEN <<>>
            ELSE <<[column |-> col, detected_types |-> detected_types]>>

\* lines 19-58: the finding of one column, if any.  The sample of a column of
\* at most sample_size non-null values is all of them.
PiiColumn(df, col) ==
    IF df.dtypes[col] # "object" THEN <<>>
    ELSE LET codes == dropna(df.data[col])
             texts == {TextLiteral(codes[i]) : i \in 1..Min2(sample_size, Len(codes))}
             detected_types ==
                 (IF \E t \in texts : EMAIL_RE(t) THEN <<"email">> ELSE <<>>)
                 \o (IF \E t \in texts : PHONE_RE(t) THEN <<"phone">> ELSE <<>>)
                 \o (IF \E t \in texts : ID_RE(t) THEN <<"id_number">> ELSE <<>>)
         IN IF codes = <<>> \/ detected_types = <<>> THEN <<>>
            ELSE <<[column |-> col, detected_types |-> detected_types]>>

RECURSIVE PiiColumns(_, _)
PiiColumns(df, columns) ==
    IF columns = <<>> THEN <<>>
    ELSE PiiColumn(df, Head(columns)) \o PiiColumns(df, Tail(columns))

detect_pii(df) ==
    LET pii_columns == PiiColumns(df, df.columns)
    IN [pii_columns      |-> pii_columns,
        pii_column_count |-> Len(pii_columns),
        has_pii          |-> Len(pii_columns) > 0]

----------------------------------------------------------------------------
(* core/outliers.py: detect_outliers *)

\* the threshold on |z|
z_thresh == 3

\* the values with |x - mean| / std >= z_thresh
OutlierCountInclusive(values) ==
    LET n  == Len(values)
        S  == SumSeq(values)
        Q  == SumSeq([i \in 1..n |-> values[i] * values[i]])
        d  == n * Q - S * S
    IN IF d = 0 THEN 0
       ELSE Cardinality({i \in 1..n :
                (n * values[i] - S) * (n * values[i] - S) >= z_thresh * z_thresh * d})

\* lines 22-29: the values with |x - mean| / std > z_thresh, where std is the
\* population standard deviation: with n values of sum S and square sum Q,
\* (n x - S)^2 > z_thresh^2 (n Q - S^2); none when std is 0
OutlierCount(values) ==
    LET n  == Len(values)
        S  == SumSeq(values)
        Q  == SumSeq([i \in 1..n |-> values[i] * values[i]])
        d  == n * Q - S * S
    IN IF d = 0 THEN 0
       ELSE Cardinality({i \in 1..n :
                (n * values[i] - S) * (n * values[i] - S) > z_thresh * z_thresh * d})

\* lines 35-43
OutlierSeverity(ratio) ==
    IF ratio[1] = 0 THEN "none"
    ELSE IF RatioGt(Ratio(1, 100), ratio) THEN "low"
    ELSE IF RatioGt(Ratio(5, 100), ratio) THEN "medium"
    ELSE "high"

\* lines 17-55: the entry of one numeric column, if it has a value; mean and
\* std of the entry are read by no other stage and are left out
OutlierColumn(df, col) ==
    LET col_data == dropna(df.data[col])
    IN IF col_data = <<>> THEN <<>>
       ELSE LET outlier_count == OutlierCount(col_data)
                value_count   == Len(col_data)
                ratio         == Ratio(outlier_count, value_count)
            IN <<[column        |-> col,
                  outlier_count |-> outlier_count,
                  value_count   |-> value_count,
                  outlier_ratio |-> ratio,
                  severity      |-> OutlierSeverity(ratio)]>>

\* df.select_dtypes(include=["number"]): the integer and float columns
RECURSIVE OutlierColumns(_, _)
OutlierColumns(df, columns) ==
    IF columns = <<>> THEN <<>>
    ELSE (IF df.dtypes[Head(columns)] \in {"int64", "float64"}
          THEN OutlierColumn(df, Head(columns)) ELSE <<>>)
         \o OutlierColumns(df, Tail(columns))

detect_outliers(df) ==
    LET results        == OutlierColumns(df, df.columns)
        total_outliers == SumSeq([i \in 1..Len(results) |-> results[i].outlier_count])
        total_values   == SumSeq([i \in 1..Len(results) |-> results[i].value_count])
    IN [columns               |-> results,
        total_outliers        |-> total_outliers,
        total_numeric_values  |-> total_values,
        overall_outlier_ratio |-> IF total_values > 0
                                  THEN Ratio(total_outliers, total_values)
                                  ELSE ZeroRatio]

----------------------------------------------------------------------------
(* utils/history.py: the run history *)

\* ticks of the clock per second; a tick is 1000000 / TicksPerSecond microseconds
TicksPerSecond == 2

\* datetime.utcnow().isoformat() + "Z" at tick t: the seconds field, then the
\* six-digit microsecond field unless the microsecond is 0, then "Z"
isoformat(t) ==
    [sec  |-> t \div TicksPerSecond,
     frac |-> IF t % TicksPerSecond = 0 THEN None
              ELSE Some((t % TicksPerSecond) * (1000000 \div TicksPerSecond))]

\* a < b on two timestamp strings: the fields up to the seconds have a fixed
\* width and compare as numbers; behind them "." sorts before "Z", so a
\* timestamp with a fraction is less than the one of the same second without
TimestampLess(a, b) ==
    \/ a.sec < b.sec
    \/ /\ a.sec = b.sec
       /\ a.frac # None
       /\ (b.frac = None \/ a.frac[1] < b.frac[1])

\* _run_filename: the file name from the timestamp and the run identifier
_run_filename(timestamp, run_id) == <<timestamp, run_id>>

\* the order of sorted(d.glob("run-*.json")) on two file names.  Behind the
\* seconds a name goes on with the fraction or with the run identifier; which
\* of two such names of one second sorts first depends on the identifier's
\* first digit and does not show in the points, which are sorted again.
FileNameLess(a, b) ==
    \/ TimestampLess(a[1], b[1])
    \/ a[1] = b[1] /\ a[2] < b[2]

\* save_run: the history directory after the run is written.  Of the payload
\* the model keeps the keys that are read back from the file.
save_run(store, dataset_name, report) ==
    LET ts       == report.timestamp
        rid      == report.run_id
        payload  == [timestamp     |-> ts,
                     run_id        |-> rid,
                     overall_score |-> Get(report, "overall_score", None),
                     missing_ratio |-> Get(report, "missing_ratio", None),
                     outlier_ratio |-> Get(report, "outlier_ratio", None)]
        filename == _run_filename(ts, rid)
    IN [store EXCEPT ![dataset_name] =
          {f \in @ : f.filename # filename} \cup {[filename |-> filename, data |-> payload]}]

\* _load_all_runs: the runs of the directory in the order of their file names
RECURSIVE _load_all_runs_of(_)
_load_all_runs_of(files) ==
    IF files = {} THEN <<>>
    ELSE LET first == CHOOSE f \in files :
                        \A g \in files \ {f} : FileNameLess(f.filename, g.filename)
         IN <<first.data>> \o _load_all_runs_of(files \ {first})

_load_all_runs(store, dataset_name) == _load_all_runs_of(store[dataset_name])

\* the point of a run
Point(r) ==
    [timestamp     |-> r.timestamp,
     overall_score |-> r.overall_score,
     missing_ratio |-> r.missing_ratio,
     outlier_ratio |-> r.outlier_ratio]

\* list.sort(key=timestamp): a stable sort, by insertion
RECURSIVE InsertByTimestamp(_, _)
InsertByTimestamp(sorted, p) ==
    IF sorted = <<>> THEN <<p>>
    ELSE IF TimestampLess(p.timestamp, Head(sorted).timestamp) THEN <<p>> \o sorted
    ELSE <<Head(sorted)>> \o InsertByTimestamp(Tail(sorted), p)

RECURSIVE SortByTimestamp(_)
SortByTimestamp(points) ==
    IF points = <<>> THEN <<>>
    ELSE InsertByTimestamp(SortByTimestamp(SubSeq(points, 1, Len(points) - 1)),
                           points[Len(points)])

_make_points(runs) == SortByTimestamp([i \in 1..Len(runs) |-> Point(runs[i])])

\* save_and_summarize_run: the directory after the call and the snapshot
save_and_summarize_run(store, dataset_name, report) ==
    LET saved == save_run(store, dataset_name, report)
    IN [store |-> saved,
        ret   |-> [points |-> _make_points(_load_all_runs(saved, dataset_name))]]

----------------------------------------------------------------------------
(* main.py: the adapters and the report of one analysis *)

\* _run_profiling: core/profiling.py has no profile_dataframe, profile_dataset
\* is called
_run_profiling(df, dataset_name) == profile_dataset(df)

\* _run_pii: detect_pii(df=df, profile=profile) raises TypeError (no parameter
\* profile), detect_pii(df=df) returns
_run_pii(df, profile) == detect_pii(df)

\* _run_outliers: likewise detect_outliers(df=df)
_run_outliers(df, profile) == detect_outliers(df)

\* the functions _run_drift looks for, and the functions core/drift.py has
drift_candidates == {"compute_drift", "detect_drift", "compute_psi", "calculate_drift"}
drift_functions ==
    {"_get_baseline_path", "_is_numeric_series", "_build_numeric_baseline", "_compute_psi",
     "_psi_severity", "_load_baseline", "_save_baseline", "analyze_drift"}

\* _run_drift: the baselines directory after the call and the returned dict;
\* analyze_drift runs only if the adapter looks for it
_run_drift(store, df, dataset_name) ==
    IF "analyze_drift" \in drift_candidates \cap drift_functions
    THEN analyze_drift(store, dataset_name, df)
    ELSE [store |-> store, ret |-> EmptyDict]

\* the functions _run_contract_suggestion looks for, and those of
\* core/contracts.py
suggestion_candidates == {"generate_contract_suggestion", "suggest_contracts", "suggest_contract"}
contracts_functions ==
    {"load_contract", "validate_contract", "suggest_contract_from_df",
     "persist_contract_suggestion", "evaluate_policy"}

\* _run_contract_suggestion: no candidate exists, the suggestion is {}
_run_contract_suggestion(df, dataset_name) ==
    IF suggestion_candidates \cap contracts_functions = {} THEN EmptyDict
    ELSE [dataset_name |-> dataset_name]

\* the parameters of evaluate_policy, none of them with a default, and the
\* keyword arguments of the adapter's first call
evaluate_policy_parameters == {"contract", "quality_score", "summary", "drift"}
policy_engine_keywords ==
    {"profile", "drift_result", "pii_result", "outlier_result", "contract_suggestion"}

\* a call binds its arguments (raises no TypeError) iff every keyword is a
\* parameter and every parameter gets an argument
Binds(parameters, positional, keywords) ==
    /\ keywords \subseteq parameters
    /\ positional + Cardinality(keywords) = Cardinality(parameters)

\* the verdict the adapter returns when no call of a candidate succeeds
DefaultPolicyResult == [policy_passed |-> TRUE, policy_failures |-> <<>>]

\* _run_policy_engine: evaluate_policy is tried with the five keyword
\* arguments, then with one positional dict; if neither call binds, and with
\* no function run_policy_engine in core/contracts.py, the default is returned
_run_policy_engine(profile, drift_result, pii_result, outlier_result, contract_suggestion) ==
    IF \/ Binds(evaluate_policy_parameters, 0, policy_engine_keywords)
       \/ Binds(evaluate_policy_parameters, 1, {})
    THEN evaluate_policy(None, 0, profile.summary, drift_result)
    ELSE DefaultPolicyResult

\* _run_autofix: build_autofix takes (summary, basic_profile, contract, pii,
\* outliers, drift): none of the adapter's three calls binds, and there is no
\* generate_autofix; the plan is [] and the script ""
_run_autofix(df, dataset_name, profile, pii_result, outlier_result) ==
    [autofix_plan |-> <<>>, autofix_script |-> ""]

\* an exact ratio times a weight of points, in thousandths of a point
Weighted(points, ratio) == (points * ScoreScale * ratio[1]) \div ratio[2]

\* _normalize_metrics: the report with the keys missing_ratio, outlier_ratio,
\* duplicate_ratio and overall_score
_normalize_metrics(report) ==
    LET summary == Get(report, "summary", EmptyDict)
        m0 == Get(report, "missing_ratio", Get(summary, "missing_ratio", None))
        m1 == IF m0 = None /\ {"total_missing_cells", "row_count", "column_count"}
                                 \subseteq DOMAIN summary
                 /\ Get(summary, "row_count", 0) * Get(summary, "column_count", 0) > 0
              THEN Ratio(summary.total_missing_cells,
                         summary.row_count * summary.column_count)
              ELSE m0
        missing_ratio == _safe_float(m1)
        o0 == Get(report, "outlier_ratio", Get(report, "overall_outlier_ratio", None))
        o1 == IF o0 = None /\ {"total_outliers", "total_numeric_values"} \subseteq DOMAIN report
                 /\ Get(report, "total_numeric_values", 0) > 0
              THEN Ratio(report.total_outliers, report.total_numeric_values)
              ELSE o0
        outlier_ratio == _safe_float(o1)
        d0 == Get(report, "duplicate_ratio", Get(summary, "duplicate_ratio", None))
        d1 == IF d0 = None /\ {"duplicate_rows", "row_count"} \subseteq DOMAIN summary
                 /\ Get(summary, "row_count", 0) > 0
              THEN Ratio(summary.duplicate_rows, summary.row_count)
              ELSE d0
        duplicate_ratio == _safe_float(d1)
        raw_score == 100 * ScoreScale - Weighted(40, missing_ratio)
                     - Weighted(40, outlier_ratio) - Weighted(20, duplicate_ratio)
        score == IF "overall_score" \in DOMAIN report THEN report.overall_score
                 ELSE ClampScore(raw_score)
    IN Merge(report, [missing_ratio   |-> missing_ratio,
                      outlier_ratio   |-> outlier_ratio,
                      duplicate_ratio |-> duplicate_ratio,
                      overall_score   |-> score])

\* _build_full_report, steps 5 to 8: the contract suggestion, the policy
\* verdict, the autofix plan, the merged report and its normalized metrics
ReportSteps5to8(dataset_name, run_id, timestamp, df, profile, pii_result, outlier_result, drift) ==
    LET contract_suggestion == _run_contract_suggestion(df, dataset_name)
        report_base ==
            Merge([dataset_name |-> dataset_name, run_id |-> run_id, timestamp |-> timestamp],
            Merge(profile,
            Merge(pii_result,
            Merge(outlier_result,
            Merge(drift.ret,
            Merge([contract_suggestion |-> contract_suggestion],
            Merge(_run_policy_engine(profile, drift.ret, pii_result, outlier_result,
                                     contract_suggestion),
                  _run_autofix(df, dataset_name, profile, pii_result, outlier_result))))))))
    IN [store |-> drift.store, report |-> _normalize_metrics(report_base)]

\* _build_full_report, steps 2 to 4 on the profile of step 1
ReportSteps2to8(store, df, dataset_name, run_id, timestamp, profile) ==
    ReportSteps5to8(dataset_name, run_id, timestamp, df, profile, _run_pii(df, profile),
                    _run_outliers(df, profile), _run_drift(store, df, dataset_name))

\* _build_full_report, steps 1 to 8: the report before the history snapshot
\* and the alerts, and the baselines directory after the drift step
ReportBase(store, df, dataset_name, run_id, timestamp) ==
    ReportSteps2to8(store, df, dataset_name, run_id, timestamp,
                    _run_profiling(df, dataset_name))

\* _build_full_report, step 10: the alerts are built on the report that holds
\* the snapshot
ReportStep10(store, runs, report) ==
    [store |-> store, runs |-> runs, report |-> Merge(report, [alerts |-> build_alerts(report)])]

\* _run_history_snapshot: snapshot.setdefault("points", [])
_run_history_snapshot(saved) == Merge([points |-> <<>>], saved.ret)

\* _build_full_report, steps 9 and 10 on the report of steps 1 to 8
ReportSteps9to10(runs, dataset_name, base) ==
    LET saved == save_and_summarize_run(runs, dataset_name, base.report)
    IN ReportStep10(base.store, saved.store,
                    Merge(base.report, [history_snapshot |-> _run_history_snapshot(saved)]))

\* _build_full_report: the baselines and the history directory after the
\* call, and the report
_build_full_report(store, runs, df, dataset_name, run_id, timestamp) ==
    ReportSteps9to10(runs, dataset_name,
                     ReportBase(store, df, dataset_name, run_id, timestamp))

----------------------------------------------------------------------------
(* main.py: the /analyze endpoint and the service's specification *)

\* an upload's file name is a stem without a dot and a suffix
FileSuffixes == {".csv", ".CSV", ".txt"}

\* str.lower() on a suffix
lower(suffix) == IF suffix = ".CSV" THEN ".csv" ELSE suffix

\* filename.lower().endswith(".csv")
endswith_csv(filename) == lower(filename.suffix) = ".csv"

\* raw_name.rsplit(".", 1)[0]
rsplit_stem(filename) == filename.stem

\* pd.read_csv(file.file): the table, or None where read_csv raises (an empty
\* file: EmptyDataError; bytes that are no text or no table: a decode or parser
\* error).  A file with a header line and no rows is a table.
pd_read_csv(content) == IF content.kind = "csv" THEN Some(content.df) ELSE None

\* _load_dataframe: the table and the dataset name, or the HTTPException
_load_dataframe(filename, content) ==
    LET df == pd_read_csv(content)
    IN IF df = None
       THEN [status |-> 400, detail |-> "Failed to parse CSV"]
       ELSE [status |-> 200, df |-> df[1], dataset_name |-> rsplit_stem(filename)]

\* uuid.uuid4(): an identifier no stored run of the dataset has
uuid4(runs, dataset_name) == Cardinality(runs[dataset_name]) + 1

\* the response 200 with the report, and the directories after the pipeline
Report200(built) ==
    [store |-> built.store, runs |-> built.runs,
     response |-> [status |-> 200, body |-> built.report]]

\* the response 400 of a request that ran the pipeline all the same
Rejected400(built) ==
    [store |-> built.store, runs |-> built.runs,
     response |-> [status |-> 400, detail |-> "Only .csv files are supported."]]

\* analyze_dataset rejecting what it cannot read after it ran the pipeline
analyze_dataset_unchecked(store, runs, now, filename, content) ==
    IF ~endswith_csv(filename) \/ content.kind # "csv"
    THEN Rejected400(_build_full_report(store, runs, CsvTable(<<>>, <<>>, <<>>),
                                        rsplit_stem(filename),
                                        uuid4(runs, rsplit_stem(filename)), isoformat(now)))
    ELSE Report200(_build_full_report(store, runs, content.df, rsplit_stem(filename),
                                      uuid4(runs, rsplit_stem(filename)), isoformat(now)))

\* analyze_dataset on the outcome of _load_dataframe
AnalyzeLoaded(store, runs, now, loaded) ==
    IF loaded.status = 400
    THEN [store |-> store, runs |-> runs, response |-> loaded]
    ELSE Report200(_build_full_report(store, runs, loaded.df, loaded.dataset_name,
                                      uuid4(runs, loaded.dataset_name), isoformat(now)))

\* analyze_dataset: the baselines and history directories after the request
\* and the response; now is the tick utcnow() reads if the pipeline runs
analyze_dataset(store, runs, now, filename, content) ==
    IF ~endswith_csv(filename)
    THEN [store |-> store, runs |-> runs,
          response |-> [status |-> 400, detail |-> "Only .csv files are supported."]]
    ELSE AnalyzeLoaded(store, runs, now, _load_dataframe(filename, content))

\* successful analyses per dataset name
MaxRuns == 2
\* the clock moves on by 1..MaxTickStep ticks between two readings
MaxTickStep == 2
\* rows of the scenario tables
ScenarioRows == 100
\* rows of the table with an outlier: ten values 0 and one value 1
OutlierRows == 11

OneColumn(name, kind, cells) ==
    CsvTable(<<name>>, [c \in {name} |-> kind], [c \in {name} |-> cells])

TwoColumns(a, kind_a, cells_a, b, kind_b, cells_b) ==
    CsvTable(<<a, b>>, [c \in {a, b} |-> IF c = a THEN kind_a ELSE kind_b],
             [c \in {a, b} |-> IF c = a THEN cells_a ELSE cells_b])

\* scenario A: ScenarioRows rows of distinct whole numbers
ScenarioA == OneColumn("id", "whole", [i \in 1..ScenarioRows |-> Some(i)])

\* scenario B: scenario A and a column email with an email in every row
ScenarioB ==
    TwoColumns("id", "whole", [i \in 1..ScenarioRows |-> Some(i)],
               "email", "text", [i \in 1..ScenarioRows |-> Some(1)])

\* the tables of the uploads: a header without rows, a table with nulls and
\* repeated rows, one with an outlier, and the two scenarios
ServiceTables ==
    { OneColumn("id", "whole", <<>>),
      OneColumn("id", "whole", <<Some(1), None, None>>),
      OneColumn("id", "whole", [i \in 1..OutlierRows |-> Some(IF i = OutlierRows THEN 1 ELSE 0)]),
      ScenarioA,
      ScenarioB }

FileNames == [stem : DatasetNames, suffix : FileSuffixes]

FileContents ==
    {[kind |-> "csv", df |-> df] : df \in ServiceTables}
    \cup {[kind |-> "empty"], [kind |-> "garbled"]}

\* a contract file with a policy block: at most 10% missing cells, at least
\* 98 points
ServiceContract ==
    [dataset_name     |-> Some("sales"),
     required_columns |-> <<>>,
     column_types     |-> <<>>,
     unique_keys      |-> <<>>,
     policy           |-> Some([quality_threshold |-> Some(98 * ScoreScale),
                                fail_on |-> Some([NoFailOn EXCEPT
                                                    !.missing_ratio_gt = Some(100)])])]

\* the service starts without baselines and runs; the contracts directory may
\* hold a contract for the dataset
InitService ==
    /\ baselines = [n \in DatasetNames |-> AbsentFile]
    /\ drift_call = NoCall
    /\ policy_call = NoCall
    /\ score_call = NoCall
    /\ NoValidatorCalls
    /\ contract_files \in [DatasetNames -> {AbsentFile,
                                            [kind |-> "contract", contract |-> ServiceContract]}]
    /\ history = [n \in DatasetNames |-> {}]
    /\ clock = 0
    /\ analyze_call = NoCall

\* POST /analyze with one upload.  An upload that the endpoint analyses is
\* taken while the dataset has fewer than MaxRuns runs.
AnalyzeDataset ==
    \E filename \in FileNames, content \in FileContents, step \in 1..MaxTickStep :
      /\ (endswith_csv(filename) /\ pd_read_csv(content) # None)
            => Cardinality(history[rsplit_stem(filename)]) < MaxRuns
      /\ \E out \in {analyze_dataset(baselines, history, clock + step, filename, content)} :
           /\ baselines' = out.store
           /\ history' = out.runs
           /\ clock' = IF out.response.status = 200 THEN clock + step ELSE clock
           /\ analyze_call' = [op |-> "analyze_dataset", filename |-> filename,
                               content |-> content, response |-> out.response]
      /\ UNCHANGED <<drift_call, policy_call, score_call, validator_vars, contract_files>>

NextService == AnalyzeDataset

SpecService == InitService /\ [][NextService]_vars

----------------------------------------------------------------------------
(* core/alerts.py on the results of the policy engine and the drift analyzer *)

\* evaluate_policy's failures are formatted strings, of which the model keeps
\* the parts: an entry with these keys is a str
StrParts == {"rule", "subject", "detail", "value", "limit"}
IsStr(x) == DOMAIN x = StrParts

\* lines 193-196: _to_dict returns a str as it is (a str has no .dict), and
\* p.get on a str raises AttributeError
PolicyFailuresRaise(raw) ==
    LET policy_failures == Get(raw, "policy_failures", <<>>)
    IN \E i \in 1..Len(policy_failures) : IsStr(policy_failures[i])

\* build_alerts: the exception it raises, if any, or the alerts it returns
build_alerts_outcome(report) ==
    IF PolicyFailuresRaise(report)
    THEN [raised |-> "AttributeError", alerts |-> <<>>]
    ELSE [raised |-> "", alerts |-> build_alerts(report)]

\* main.py:443-455: the verdict's keys are merged into the report as they are
MergedVerdict(verdict) == Merge([dataset_name |-> "sales"], verdict)

\* the verdict under the keys build_alerts reads
ListedVerdict(verdict) ==
    [dataset_name    |-> "sales",
     policy_passed   |-> verdict.pipeline_passed,
     policy_failures |-> verdict.failures]

\* build_alerts runs on a report that carries the verdict of the engine
AlertVerdict ==
    /\ policy_call.op = "evaluate_policy"
    /\ policy_call.ret # None
    /\ alerts_call = NoCall
    /\ \E report \in {MergedVerdict(policy_call.ret[1]), ListedVerdict(policy_call.ret[1])} :
         alerts_call' = [op      |-> "build_alerts",
                         report  |-> report,
                         outcome |-> build_alerts_outcome(report)]
    /\ UNCHANGED <<baselines, drift_call, policy_call, score_call, contract_call, gate_call,
                   service_vars>>

NextPolicyAlerts ==
    \/ EvaluatePolicy
    \/ AlertVerdict

SpecPolicyAlerts == InitPolicy /\ [][NextPolicyAlerts]_vars

\* main.py:443-455: the drift result's keys are merged into the report, so
\* that the report's columns are the drift columns
MergedDrift(drift_result) == Merge([dataset_name |-> "sales"], drift_result)

\* quality_gate.py:113-127: the drift result is the report's entry drift
GateReport(drift_result) == [dataset_name |-> "sales", drift |-> drift_result]

\* build_alerts runs on a report assembled from the result of the latest
\* drift analysis; the specification follows the analyses up to the first report
AlertDrift ==
    /\ drift_call.op = "analyze_drift"
    /\ alerts_call = NoCall
    /\ \E report \in {MergedDrift(drift_call.ret), GateReport(drift_call.ret)} :
         alerts_call' = [op     |-> "build_alerts",
                         report |-> report,
                         ret    |-> Some(build_alerts(report))]
    /\ UNCHANGED <<baselines, drift_call, policy_call, score_call, contract_call, gate_call,
                   service_vars>>

NextDriftAlerts ==
    \/ alerts_call = NoCall /\ \E n \in DatasetNames, df \in DriftTables : AnalyzeDrift(n, df)
    \/ alerts_call = NoCall /\ \E n \in DatasetNames : CorruptBaseline(n)
    \/ AlertDrift

SpecDriftAlerts == InitDrift /\ [][NextDriftAlerts]_vars

----------------------------------------------------------------------------
(* core/outliers.py and core/pii.py on tables of their own *)

\* the cells after the zeros of the measured column
TailCells == 3

\* a column x of OutlierRows cells: zeros, then TailCells cells that are null,
\* 0, 1 or 10
MeasuredColumns ==
    {[i \in 1..OutlierRows |-> IF i <= OutlierRows - TailCells THEN Some(0)
                               ELSE tail[i - (OutlierRows - TailCells)]] :
        tail \in [1..TailCells -> {None, Some(0), Some(1), Some(10)}]}

\* the measured column alone, or beside a text column, a numeric column of one
\* value or a numeric column of nulls; a text column alone; a column of nulls
OutlierTables ==
    UNION {{OneColumn("x", "whole", x),
            TwoColumns("x", "whole", x, "label", "text", [i \in 1..OutlierRows |-> Some(4)]),
            TwoColumns("x", "whole", x, "k", "whole", [i \in 1..OutlierRows |-> Some(5)]),
            TwoColumns("x", "whole", x, "k", "whole", [i \in 1..OutlierRows |-> None])} :
               x \in MeasuredColumns}
    \cup {OneColumn("label", "text", [i \in 1..OutlierRows |-> Some(4)]),
          OneColumn("x", "whole", [i \in 1..OutlierRows |-> None])}

InitOutliers ==
    /\ baselines = [n \in DatasetNames |-> AbsentFile]
    /\ drift_call = NoCall
    /\ policy_call = NoCall
    /\ score_call = NoCall
    /\ NoValidatorCalls
    /\ contract_files = [n \in DatasetNames |-> AbsentFile]
    /\ history = [n \in DatasetNames |-> {}]
    /\ clock = 0
    /\ \E df \in OutlierTables :
         analyze_call = [op |-> "detect_outliers", df |-> df, ret |-> None]

DetectOutliers ==
    /\ analyze_call.op = "detect_outliers"
    /\ analyze_call.ret = None
    /\ analyze_call' = [analyze_call EXCEPT !.ret = Some(detect_outliers(analyze_call.df))]
    /\ UNCHANGED <<baselines, drift_call, policy_call, score_call, validator_vars,
                   contract_files, history, clock>>

NextOutliers == DetectOutliers

SpecOutliers == InitOutliers /\ [][NextOutliers]_vars

\* the rows of the scanned tables
PiiRows == 3

\* a column contact of PiiRows cells that are null or one of the four literals
ContactColumns == [1..PiiRows -> {None, Some(1), Some(2), Some(3), Some(4)}]

\* the column contact alone, or beside a column of whole numbers or a text
\* column note whose first cell is an email address
PiiTables ==
    UNION {{OneColumn("contact", "text", contact),
            TwoColumns("contact", "text", contact,
                       "id", "whole", [i \in 1..PiiRows |-> Some(i)]),
            TwoColumns("contact", "text", contact,
                       "note", "text", [i \in 1..PiiRows |-> Some(IF i = 1 THEN 1 ELSE 4)])} :
               contact \in ContactColumns}

InitPii ==
    /\ baselines = [n \in DatasetNames |-> AbsentFile]
    /\ drift_call = NoCall
    /\ policy_call = NoCall
    /\ score_call = NoCall
    /\ NoValidatorCalls
    /\ contract_files = [n \in DatasetNames |-> AbsentFile]
    /\ history = [n \in DatasetNames |-> {}]
    /\ clock = 0
    /\ \E df \in PiiTables :
         analyze_call = [op |-> "detect_pii", df |-> df, ret |-> None]

DetectPii ==
    /\ analyze_call.op = "detect_pii"
    /\ analyze_call.ret = None
    /\ analyze_call' = [analyze_call EXCEPT !.ret = Some(detect_pii(analyze_call.df))]
    /\ UNCHANGED <<baselines, drift_call, policy_call, score_call, validator_vars,
                   contract_files, history, clock>>

NextPii == DetectPii

SpecPii == InitPii /\ [][NextPii]_vars

----------------------------------------------------------------------------
(* core/contracts.py: the contracts directory *)

\* the dataset names of the stored contracts; "dataset" is the name of a
\* contract that carries none
StoreNames == {"sales", "dataset"}

\* contracts as suggest_contract_from_df builds them, with or without the key
\* dataset_name, requiring the column id or no column
StoreContracts ==
    {[dataset_name |-> "sales", required_columns |-> r] : r \in {<<>>, <<"id">>}}
    \cup {[required_columns |-> r] : r \in {<<>>, <<"id">>}}

\* the keys of a contract in the order they are inserted
ContractKeys == <<"dataset_name", "required_columns">>

\* yaml.safe_dump(contract, sort_keys=False): one entry per key in insertion
\* order, a string as a scalar and a list as a block sequence
yaml_safe_dump(contract) ==
    LET keys == SelectSeq(ContractKeys, LAMBDA k : k \in DOMAIN contract)
    IN [i \in 1..Len(keys) |->
          <<keys[i], IF keys[i] = "dataset_name" THEN <<"scalar", contract[keys[i]]>>
                     ELSE <<"sequence", contract[keys[i]]>>>>]

\* yaml.safe_load of a document: the mapping of its entries
yaml_safe_load(text) ==
    [k \in {text[i][1] : i \in 1..Len(text)} |->
        text[CHOOSE i \in 1..Len(text) : text[i][1] = k][2][2]]

\* a contract file, and a file that is not YAML
YamlFile(text) == [kind |-> "yaml", text |-> text]
StoreFiles == {AbsentFile, CorruptFile} \cup {YamlFile(yaml_safe_dump(c)) : c \in StoreContracts}

\* load_contract: None without a file, the parsed mapping, or the parser's error
load_contract(files, dataset_name) ==
    IF files[dataset_name].kind = "absent" THEN [raised |-> "", value |-> None]
    ELSE IF files[dataset_name].kind = "corrupt" THEN [raised |-> "YAMLError", value |-> None]
    ELSE [raised |-> "", value |-> Some(yaml_safe_load(files[dataset_name].text))]

\* path.read_text
read_text(file) == IF file.kind = "yaml" THEN Some(file.text) ELSE None

\* persist_contract_suggestion that writes whatever the directory holds
persist_contract_suggestion_overwriting(files, contract, overwrite) ==
    LET dataset_name == Get(contract, "dataset_name", "dataset")
        yaml_str     == yaml_safe_dump(contract)
    IN [files |-> [files EXCEPT ![dataset_name] = YamlFile(yaml_str)],
        ret   |-> [saved |-> TRUE, path |-> dataset_name, contract_yaml |-> Some(yaml_str)]]

\* persist_contract_suggestion: the directory after the call and the result
persist_contract_suggestion(files, contract, overwrite) ==
    LET dataset_name == Get(contract, "dataset_name", "dataset")
        yaml_str     == yaml_safe_dump(contract)
    IN IF files[dataset_name].kind # "absent" /\ ~overwrite
       THEN [files |-> files,
             ret   |-> [saved |-> FALSE, path |-> dataset_name,
                        contract_yaml |-> read_text(files[dataset_name])]]
       ELSE [files |-> [files EXCEPT ![dataset_name] = YamlFile(yaml_str)],
             ret   |-> [saved |-> TRUE, path |-> dataset_name,
                        contract_yaml |-> Some(yaml_str)]]

\* the contracts directory holds any files; nothing else has happened
InitStore ==
    /\ baselines = [n \in DatasetNames |-> AbsentFile]
    /\ drift_call = NoCall
    /\ policy_call = NoCall
    /\ score_call = NoCall
    /\ NoValidatorCalls
    /\ contract_files \in [StoreNames -> StoreFiles]
    /\ history = [n \in DatasetNames |-> {}]
    /\ clock = 0
    /\ analyze_call = NoCall

PersistContract ==
    \E contract \in StoreContracts, overwrite \in BOOLEAN :
      LET out == persist_contract_suggestion(contract_files, contract, overwrite)
      IN /\ contract_files' = out.files
         /\ contract_call' = [op |-> "persist_contract_suggestion", contract |-> contract,
                              overwrite |-> overwrite, ret |-> out.ret]
         /\ UNCHANGED <<baselines, drift_call, policy_call, score_call, gate_call,
                        alerts_call, history, clock, analyze_call>>

\* load_contract, as the quality gate calls it
LoadContract ==
    \E dataset_name \in StoreNames :
      /\ contract_call' = [op |-> "load_contract", dataset_name |-> dataset_name,
                           ret |-> load_contract(contract_files, dataset_name)]
      /\ UNCHANGED <<baselines, drift_call, policy_call, score_call, gate_call,
                     alerts_call, contract_files, history, clock, analyze_call>>

\* saves, loads, and one upload to the orchestrator
NextStore ==
    \/ PersistContract
    \/ LoadContract
    \/ analyze_call = NoCall /\ AnalyzeDataset

SpecStore == InitStore /\ [][NextStore]_vars

----------------------------------------------------------------------------
(* Two analyses of one dataset name that run at the same time *)

\* the two requests
Procs == {1, 2}

\* the tables of the two requests: a column id, another column id, and the
\* first beside a second numeric column
ConcurrentTables ==
    { OneColumn("id", "whole", <<Some(0), Some(1)>>),
      OneColumn("id", "whole", <<Some(1), Some(1)>>),
      TwoColumns("id", "whole", <<Some(0), Some(1)>>, "v", "whole", <<Some(1), Some(0)>>) }

\* a baseline file that does not parse: the empty file an open for writing
\* leaves (longest = None), or the text of one dump followed by the rest of a
\* longer one (longest = the baseline of the longer dump)
PartFile(longest) == [kind |-> "corrupt", longest |-> longest]

\* the baseline whose dump has the length of the file, if the file has a length
LengthOf(file) ==
    IF file.kind = "json" THEN Some(file.content)
    ELSE IF file.kind = "corrupt" /\ "longest" \in DOMAIN file THEN file.longest
    ELSE None

\* the number of column entries of json.dumps(baseline, indent=2); a dump
\* with more entries is the longer text
DumpEntries(baseline) == Cardinality(DOMAIN baseline.columns)

\* the write of path.write_text, at offset 0 of the file the request opened:
\* the text replaces the file when the file is not longer than the text, and
\* otherwise the rest of the longer text stays behind it.  Two different dumps
\* with the same number of entries can be of either length.
WriteAtStart(file, baseline) ==
    LET old == LengthOf(file)
    IN IF old = None \/ old = Some(baseline) THEN {JsonFile(baseline)}
       ELSE IF DumpEntries(old[1]) < DumpEntries(baseline) THEN {JsonFile(baseline)}
       ELSE IF DumpEntries(old[1]) > DumpEntries(baseline) THEN {PartFile(old)}
       ELSE {JsonFile(baseline), PartFile(old)}

\* the report a request hands to save_run: main.py makes the run identifier
\* and the timestamp before the stages run
ConcurrentReport(p) == [timestamp |-> isoformat(0), run_id |-> p]

\* both requests have read their table; the dataset name is new
InitConcurrent ==
    /\ baselines = [n \in DatasetNames |-> AbsentFile]
    /\ drift_call = NoCall
    /\ policy_call = NoCall
    /\ score_call = NoCall
    /\ NoValidatorCalls
    /\ contract_files = [n \in DatasetNames |-> AbsentFile]
    /\ history = [n \in DatasetNames |-> {}]
    /\ clock = 0
    /\ \E dfs \in [Procs -> ConcurrentTables] :
         analyze_call = [op |-> "concurrent",
                         procs |-> [p \in Procs |-> [pc |-> "load", df |-> dfs[p],
                                                     baseline |-> None]]]

\* the request p moves to pc with the baseline it loaded
Goto(p, pc, baseline) ==
    analyze_call' = [analyze_call EXCEPT !.procs[p].pc = pc, !.procs[p].baseline = baseline]

\* analyze_drift line 171: _load_baseline
LoadBaseline(p, dataset_name) ==
    /\ analyze_call.procs[p].pc = "load"
    /\ LET baseline == _load_baseline(baselines, dataset_name)
       IN Goto(p, IF baseline = None THEN "open" ELSE "compare", baseline)
    /\ UNCHANGED <<baselines, drift_call, policy_call, score_call, validator_vars,
                   contract_files, history, clock>>

\* _save_baseline: path.write_text opens the file for writing, which empties it
OpenBaseline(p, dataset_name) ==
    /\ analyze_call.procs[p].pc = "open"
    /\ baselines' = [baselines EXCEPT ![dataset_name] = PartFile(None)]
    /\ Goto(p, "write", None)
    /\ UNCHANGED <<drift_call, policy_call, score_call, validator_vars,
                   contract_files, history, clock>>

\* _save_baseline: path.write_text writes the dump and closes the file
WriteBaseline(p, dataset_name) ==
    /\ analyze_call.procs[p].pc = "write"
    /\ \E file \in WriteAtStart(baselines[dataset_name],
                                NewBaseline(dataset_name, analyze_call.procs[p].df)) :
         baselines' = [baselines EXCEPT ![dataset_name] = file]
    /\ Goto(p, "save_run", None)
    /\ UNCHANGED <<drift_call, policy_call, score_call, validator_vars,
                   contract_files, history, clock>>

\* analyze_drift lines 187-277: the comparison with the loaded baseline writes
\* nothing
CompareBaseline(p) ==
    /\ analyze_call.procs[p].pc = "compare"
    /\ Goto(p, "save_run", analyze_call.procs[p].baseline)
    /\ UNCHANGED <<baselines, drift_call, policy_call, score_call, validator_vars,
                   contract_files, history, clock>>

\* save_run: the run file of the request, named after its run identifier
SaveRun(p, dataset_name) ==
    /\ analyze_call.procs[p].pc = "save_run"
    /\ history' = save_run(history, dataset_name, ConcurrentReport(p))
    /\ Goto(p, "done", analyze_call.procs[p].baseline)
    /\ UNCHANGED <<baselines, drift_call, policy_call, score_call, validator_vars,
                   contract_files, clock>>

NextConcurrent ==
    \E p \in Procs, dataset_name \in DatasetNames :
      \/ LoadBaseline(p, dataset_name)
      \/ OpenBaseline(p, dataset_name)
      \/ WriteBaseline(p, dataset_name)
      \/ CompareBaseline(p)
      \/ SaveRun(p, dataset_name)

SpecConcurrent == InitConcurrent /\ [][NextConcurrent]_vars

----------------------------------------------------------------------------
(* The files of several dataset names: core/drift.py, core/schema.py and
   utils/history.py on one disk *)

\* dataset names as the pieces of their text: sales, schema_sales, a/b, a_b
IsolationNames ==
    {<<"sales">>, <<"schema_", "sales">>, <<"a", "/", "b">>, <<"a", "_", "b">>}

\* dataset_name.replace("/", "_").replace("\\", "_")
safe(dataset_name) ==
    [i \in 1..Len(dataset_name) |->
        IF dataset_name[i] \in {"/", "\\"} THEN "_" ELSE dataset_name[i]]

\* drift.py: <root>/baselines/<dataset_name>.json
_get_baseline_path(dataset_name) == dataset_name \o <<".json">>

\* schema.py: <root>/baselines/schema_<safe>.json, in the directory of the
\* drift baselines
_schema_path(dataset_name) == <<"schema_">> \o safe(dataset_name) \o <<".json">>

\* history.py: <root>/history/<safe>
_dataset_dir(dataset_name) == safe(dataset_name)

\* the paths of the directory baselines and the directories of history
BaselinePaths ==
    {_get_baseline_path(n) : n \in IsolationNames} \cup {_schema_path(n) : n \in IsolationNames}
HistoryDirs == {_dataset_dir(n) : n \in IsolationNames}

\* what a component writes: whose state it is and of which sort
StateOf(sort, dataset_name) == [sort |-> sort, dataset_name |-> dataset_name]

\* a file can be created where its directory exists: the directory baselines
\* has no subdirectories
Writable(path) == "/" \notin SeqToSet(path)

InitIsolation ==
    /\ baselines = [path \in BaselinePaths |-> AbsentFile]
    /\ history = [d \in HistoryDirs |-> {}]
    /\ drift_call = NoCall
    /\ policy_call = NoCall
    /\ score_call = NoCall
    /\ NoValidatorCalls
    /\ contract_files = [n \in DatasetNames |-> AbsentFile]
    /\ clock = 0
    /\ analyze_call = NoCall

\* analyze_drift (lines 171-185): the baseline is loaded from the path of the
\* name and, if there is none, saved there; write_text fails where the
\* directory of the path does not exist
AnalyzeDriftOf(dataset_name) ==
    LET path     == _get_baseline_path(dataset_name)
        baseline == _load_baseline(baselines, path)
    IN /\ baselines' = IF baseline = None /\ Writable(path)
                       THEN _save_baseline(baselines, path, StateOf("drift", dataset_name))
                       ELSE baselines
       /\ drift_call' = [op |-> "analyze_drift", dataset_name |-> dataset_name,
                         read |-> baseline,
                         raised |-> IF baseline = None /\ ~Writable(path)
                                    THEN "FileNotFoundError" ELSE ""]
       /\ UNCHANGED <<policy_call, score_call, validator_vars, service_vars>>

\* detect_schema_changes (schema.py): the schema baseline is loaded from the
\* path of the name and, if there is none, saved there
DetectSchemaChanges(dataset_name) ==
    LET path     == _schema_path(dataset_name)
        baseline == _load_baseline(baselines, path)
    IN /\ baselines' = IF baseline = None
                       THEN _save_baseline(baselines, path, StateOf("schema", dataset_name))
                       ELSE baselines
       /\ drift_call' = [op |-> "detect_schema_changes", dataset_name |-> dataset_name,
                         read |-> baseline, raised |-> ""]
       /\ UNCHANGED <<policy_call, score_call, validator_vars, service_vars>>

\* save_run: a run file in the directory of the name, while the directory has
\* fewer than MaxRuns files
SaveRunOf(dataset_name) ==
    LET d == _dataset_dir(dataset_name)
    IN /\ Cardinality(history[d]) < MaxRuns
       /\ history' = [history EXCEPT ![d] =
                        @ \cup {[run_id |-> Cardinality(@) + 1,
                                 data |-> StateOf("run", dataset_name)]}]
       /\ drift_call' = [op |-> "save_run", dataset_name |-> dataset_name,
                         read |-> None, raised |-> ""]
       /\ UNCHANGED <<baselines, policy_call, score_call, validator_vars,
                      contract_files, clock, analyze_call>>

NextIsolation ==
    \E dataset_name \in IsolationNames :
      \/ AnalyzeDriftOf(dataset_name)
      \/ DetectSchemaChanges(dataset_name)
      \/ SaveRunOf(dataset_name)

SpecIsolation == InitIsolation /\ [][NextIsolation]_vars

----------------------------------------------------------------------------
(* Properties of the drift analyzer *)

IsAnalyze(call) == call.op = "analyze_drift"

C2_BaselineNeverUpdated ==
    [][ (IsAnalyze(drift_call') /\ baselines[drift_call'.dataset_name].kind = "json")
        => /\ ~drift_call'.ret.baseline_created
           /\ baselines'[drift_call'.dataset_name] = baselines[drift_call'.dataset_name] ]_vars

\* a comparison run on a table that would have built another baseline
C2_Witness ==
    /\ IsAnalyze(drift_call)
    /\ drift_call.file_before = "json"
    /\ ~drift_call.ret.baseline_created
    /\ baselines[drift_call.dataset_name]
         # JsonFile(NewBaseline(drift_call.dataset_name, drift_call.df))

\* the second of two consecutive calls on the same name with the same table,
\* the first of which created the baseline
SecondIdenticalCall ==
    /\ IsAnalyze(drift_call)
    /\ drift_call.ret.baseline_created
    /\ IsAnalyze(drift_call')
    /\ drift_call'.dataset_name = drift_call.dataset_name
    /\ drift_call'.df = drift_call.df

\* C3 as stated: the second call on identical data returns baseline_created =
\* false and has_drift = false, and every column it reports has drift = false,
\* PSI equal to 0 and relative_change 0 or null.
C3_AsStated ==
    [][ SecondIdenticalCall
        => /\ ~drift_call'.ret.baseline_created
           /\ ~drift_call'.ret.has_drift
           /\ \A i \in 1..Len(drift_call'.ret.columns) :
                LET c == drift_call'.ret.columns[i]
                IN /\ ~c.drift
                   /\ c.psi = Some(0)
                   /\ c.relative_change \in {None, Some(0)} ]_vars

\* C3 amended: as above, but PSI is 0 for the reported columns that hold a
\* non-null value; a reported column holding only nulls has psi = null (and
\* psi_severity none).
C3_IdenticalDataNoDrift ==
    [][ SecondIdenticalCall
        => /\ ~drift_call'.ret.baseline_created
           /\ ~drift_call'.ret.has_drift
           /\ \A i \in 1..Len(drift_call'.ret.columns) :
                LET c == drift_call'.ret.columns[i]
                IN /\ ~c.drift
                   /\ c.psi_severity = "none"
                   /\ c.relative_change \in {None, Some(0)}
                   /\ IF dropna(drift_call'.df.data[c.column]) # <<>>
                      THEN c.psi = Some(0)
                      ELSE c.psi = None ]_vars

\* a comparison of a table with the baseline it builds: a column with two
\* distinct values and non-zero mean is reported with PSI 0 and change 0
C3_Witness ==
    /\ IsAnalyze(drift_call)
    /\ ~drift_call.ret.baseline_created
    /\ baselines[drift_call.dataset_name]
         = JsonFile(NewBaseline(drift_call.dataset_name, drift_call.df))
    /\ \E i \in 1..Len(drift_call.ret.columns) :
         LET c == drift_call.ret.columns[i]
         IN /\ c.psi = Some(0)
            /\ c.relative_change = Some(0)
            /\ Cardinality(SeqToSet(dropna(drift_call.df.data[c.column]))) > 1

C10_CorruptBaselineRecreated ==
    [][ (IsAnalyze(drift_call') /\ baselines[drift_call'.dataset_name].kind = "corrupt")
        => /\ drift_call'.ret = CreatedMarker
           /\ baselines'[drift_call'.dataset_name]
                = JsonFile(NewBaseline(drift_call'.dataset_name, drift_call'.df)) ]_vars

C10_Witness ==
    /\ IsAnalyze(drift_call)
    /\ drift_call.file_before = "corrupt"
    /\ drift_call.ret.baseline_created
    /\ baselines[drift_call.dataset_name].kind = "json"
    /\ "x" \in DOMAIN baselines[drift_call.dataset_name].content.columns

----------------------------------------------------------------------------
(* Properties of the scoring engine *)

ScoreReturned == score_call.op = "compute_quality_score" /\ score_call.ret # None

\* C6: the score is clamp(100 - min(missing_ratio*30, 30) - min(duplicate_ratio*20, 20)
\* - min(contract_violations*5, 25) - min(pii_column_count*5, 20)
\* - min(overall_outlier_ratio*15, 15) - (10 if has_drift else 0), 0, 100), and
\* lies in [0, 100] for all inputs.
C6_ScoreFormula ==
    ScoreReturned =>
        LET a == score_call.args
            raw == 100 * ScoreScale
                   - Min2((a.missing_ratio * 30 * ScoreScale) \div RatioScale, 30 * ScoreScale)
                   - Min2((a.duplicate_ratio * 20 * ScoreScale) \div RatioScale, 20 * ScoreScale)
                   - Min2(a.contract_violations * 5 * ScoreScale, 25 * ScoreScale)
                   - Min2(a.pii_column_count * 5 * ScoreScale, 20 * ScoreScale)
                   - Min2((a.overall_outlier_ratio * 15 * ScoreScale) \div RatioScale,
                          15 * ScoreScale)
                   - (IF a.has_drift THEN 10 * ScoreScale ELSE 0)
            clamped == IF raw < 0 THEN 0
                       ELSE IF raw > 100 * ScoreScale THEN 100 * ScoreScale ELSE raw
        IN /\ score_call.ret[1].score = clamped
           /\ score_call.ret[1].score >= 0
           /\ score_call.ret[1].score <= 100 * ScoreScale

\* every penalty at its cap: the unclamped sum is below 0
C6_Witness ==
    /\ ScoreReturned
    /\ score_call.args.missing_ratio = RatioScale
    /\ score_call.args.duplicate_ratio = RatioScale
    /\ score_call.args.contract_violations >= 5
    /\ score_call.args.pii_column_count >= 4
    /\ score_call.args.overall_outlier_ratio = RatioScale
    /\ score_call.args.has_drift
    /\ score_call.ret[1].score = 0

\* C7: raising any one of the five numeric inputs, or switching has_drift from
\* false to true, with the other inputs fixed, never raises the score.
C7_ScoreMonotone ==
    ScoreReturned =>
        LET a == score_call.args
            s == score_call.ret[1].score
        IN /\ \A v \in RatioGrid : v >= a.missing_ratio =>
                ScoreOf([a EXCEPT !.missing_ratio = v]).score <= s
           /\ \A v \in RatioGrid : v >= a.duplicate_ratio =>
                ScoreOf([a EXCEPT !.duplicate_ratio = v]).score <= s
           /\ \A v \in 0..MaxCount : v >= a.contract_violations =>
                ScoreOf([a EXCEPT !.contract_violations = v]).score <= s
           /\ \A v \in 0..MaxCount : v >= a.pii_column_count =>
                ScoreOf([a EXCEPT !.pii_column_count = v]).score <= s
           /\ \A v \in RatioGrid : v >= a.overall_outlier_ratio =>
                ScoreOf([a EXCEPT !.overall_outlier_ratio = v]).score <= s
           /\ ~a.has_drift => ScoreOf([a EXCEPT !.has_drift = TRUE]).score <= s

\* a call whose score strictly drops when drift is switched on, and when one
\* more PII column is counted
C7_Witness ==
    /\ ScoreReturned
    /\ ~score_call.args.has_drift
    /\ ScoreOf([score_call.args EXCEPT !.has_drift = TRUE]).score < score_call.ret[1].score
    /\ score_call.args.pii_column_count < MaxCount
    /\ ScoreOf([score_call.args EXCEPT !.pii_column_count = @ + 1]).score
         < score_call.ret[1].score

\* C8: the label is GREEN iff score >= 80, YELLOW iff 50 <= score < 80 and RED
\* iff score < 50.
C8_LabelBands ==
    ScoreReturned =>
        LET s == score_call.ret[1].score
            l == score_call.ret[1].label
        IN /\ l \in {"GREEN", "YELLOW", "RED"}
           /\ l = "GREEN" <=> s >= 80 * ScoreScale
           /\ l = "YELLOW" <=> (50 * ScoreScale <= s /\ s < 80 * ScoreScale)
           /\ l = "RED" <=> s < 50 * ScoreScale

\* a score of exactly 80 is GREEN
C8_Witness ==
    /\ ScoreReturned
    /\ score_call.ret[1].score = 80 * ScoreScale
    /\ score_call.ret[1].label = "GREEN"

----------------------------------------------------------------------------
(* Properties of the policy engine *)

PolicyReturned == policy_call.op = "evaluate_policy" /\ policy_call.ret # None

\* the number of entries of failures that a rule appended
FailureCount(failures, rule) ==
    Cardinality({i \in 1..Len(failures) : failures[i].rule = rule})

\* C4: with a policy block every configured rule is evaluated: quality_threshold
\* fails iff score < threshold; missing_ratio_gt, duplicate_ratio_gt,
\* contract_violations_gt and overall_outlier_ratio_gt fail iff the summary field
\* is strictly greater than the threshold; has_drift fails iff the policy forbids
\* drift and summary.has_drift is true; failures holds exactly one entry per
\* failed rule, and pipeline_passed is true iff failures is empty.
C4_EveryRuleEvaluated ==
    (PolicyReturned /\ policy_call.contract # None /\ policy_call.contract[1].policy # None)
    => LET p  == policy_call.contract[1].policy[1]
           sm == policy_call.summary
           f  == policy_call.ret[1].failures
           Configured(field) == p.fail_on # None /\ p.fail_on[1][field] # None
           Thr(field) == p.fail_on[1][field][1]
           One(b) == IF b THEN 1 ELSE 0
           Entry(rule, subject, failed) ==
               /\ FailureCount(f, rule) = One(failed)
               /\ \A i \in 1..Len(f) : f[i].rule = rule => f[i].subject = subject
       IN /\ Entry("quality_threshold", "quality_score",
                   p.quality_threshold # None
                   /\ policy_call.quality_score < p.quality_threshold[1])
          /\ Entry("missing_ratio_gt", "missing_ratio",
                   Configured("missing_ratio_gt")
                   /\ sm.missing_ratio > Thr("missing_ratio_gt"))
          /\ Entry("duplicate_ratio_gt", "duplicate_ratio",
                   Configured("duplicate_ratio_gt")
                   /\ sm.duplicate_ratio > Thr("duplicate_ratio_gt"))
          /\ Entry("contract_violations_gt", "contract_violations",
                   Configured("contract_violations_gt")
                   /\ sm.contract_violations * ViolationScale > Thr("contract_violations_gt"))
          /\ Entry("overall_outlier_ratio_gt", "overall_outlier_ratio",
                   Configured("overall_outlier_ratio_gt")
                   /\ sm.overall_outlier_ratio > Thr("overall_outlier_ratio_gt"))
          /\ Entry("has_drift", "has_drift",
                   Configured("has_drift") /\ Thr("has_drift") /\ sm.has_drift)
          /\ FailureCount(f, "psi_severity_in") <= 1
          /\ Len(f) = FailureCount(f, "quality_threshold")
                      + FailureCount(f, "missing_ratio_gt")
                      + FailureCount(f, "duplicate_ratio_gt")
                      + FailureCount(f, "contract_violations_gt")
                      + FailureCount(f, "overall_outlier_ratio_gt")
                      + FailureCount(f, "has_drift")
                      + FailureCount(f, "psi_severity_in")
          /\ policy_call.ret[1].pipeline_passed <=> (f = <<>>)

\* fail_on.missing_ratio_gt = 0.1 and missing_ratio = 0.15, no other rule
\* breached: one failure, about missing_ratio, and the pipeline does not pass
C4_Witness ==
    /\ PolicyReturned
    /\ policy_call.contract # None
    /\ policy_call.contract[1].policy # None
    /\ policy_call.contract[1].policy[1].fail_on # None
    /\ policy_call.contract[1].policy[1].fail_on[1].missing_ratio_gt = Some(100)
    /\ policy_call.summary.missing_ratio = 150
    /\ Len(policy_call.ret[1].failures) = 1
    /\ policy_call.ret[1].failures[1].subject = "missing_ratio"
    /\ ~policy_call.ret[1].pipeline_passed

\* C5: without a contract, or with a contract that has no policy block, the
\* verdict is pipeline_passed = true with no failures, whatever the score, the
\* summary and the drift result.
C5_NoPolicyAlwaysPasses ==
    (PolicyReturned /\ (\/ policy_call.contract = None
                        \/ policy_call.contract[1].policy = None))
    => policy_call.ret[1] = [pipeline_passed |-> TRUE, failures |-> <<>>]

\* a contract without policy passes although the score is low, violations are
\* counted and a severe drift column is reported
C5_Witness ==
    /\ PolicyReturned
    /\ policy_call.contract = Some([policy |-> None])
    /\ policy_call.quality_score < 75 * ScoreScale
    /\ policy_call.summary.contract_violations > 0
    /\ policy_call.summary.has_drift
    /\ \E i \in 1..Len(policy_call.drift.columns) :
         policy_call.drift.columns[i].psi_severity = "severe"
    /\ policy_call.ret[1].pipeline_passed

----------------------------------------------------------------------------
(* Properties of the contract validator *)

ContractReturned == contract_call.op = "validate_contract" /\ contract_call.ret # None

\* s is t with some entries left out, the others in t's order
RECURSIVE IsSubSeq(_, _)
IsSubSeq(s, t) ==
    IF s = <<>> THEN TRUE
    ELSE IF t = <<>> THEN FALSE
    ELSE IF Head(s) = Head(t) THEN IsSubSeq(Tail(s), Tail(t))
    ELSE IsSubSeq(s, Tail(t))

\* C11: validate_contract reports as missing exactly the declared required
\* columns that the table does not have and as present exactly those it has,
\* each list in the contract's order and the two together as long as the
\* declared list; passed is true iff the missing list, type_mismatches and
\* unique_violations are all empty.
C11_MissingAndPassed ==
    ContractReturned =>
        LET r        == contract_call.ret[1]
            required == contract_call.contract.required_columns
            existing == SeqToSet(contract_call.df.columns)
            missing  == r.required_columns.missing
            present  == r.required_columns.present
        IN /\ SeqToSet(missing) = SeqToSet(required) \ existing
           /\ SeqToSet(present) = SeqToSet(required) \cap existing
           /\ IsSubSeq(missing, required)
           /\ IsSubSeq(present, required)
           /\ Len(missing) + Len(present) = Len(required)
           /\ r.passed <=> (missing = <<>> /\ r.type_mismatches = <<>>
                            /\ r.unique_violations = <<>>)

\* a table with the columns id and v checked against a contract that requires
\* zip, id, age and v
C11_Witness ==
    /\ ContractReturned
    /\ contract_call.ret[1].required_columns.missing = <<"zip", "age">>
    /\ contract_call.ret[1].required_columns.present = <<"id", "v">>
    /\ ~contract_call.ret[1].passed

\* the columns that unique_violations lists, and the count listed for a column
ViolationColumns(unique_violations) ==
    {unique_violations[i].column : i \in 1..Len(unique_violations)}

ListedDuplicateCount(unique_violations, col) ==
    LET i == CHOOSE j \in 1..Len(unique_violations) : unique_violations[j].column = col
    IN unique_violations[i].duplicate_count

\* the non-null cells of a column that repeat an earlier non-null cell
NonNullRepeats(col) == Len(dropna(col)) - Cardinality(SeqToSet(col) \ {None})

\* C12: a declared unique-key column is listed in unique_violations iff the
\* table has the column and some non-null value occurs in it more than once;
\* the duplicate_count listed for it counts no null.
C12_NullsNeverViolate ==
    ContractReturned =>
        LET r  == contract_call.ret[1]
            df == contract_call.df
        IN \A col \in SeqToSet(contract_call.contract.unique_keys) :
             /\ col \in ViolationColumns(r.unique_violations)
                  <=> (col \in SeqToSet(df.columns) /\ NonNullRepeats(df.data[col]) > 0)
             /\ col \in ViolationColumns(r.unique_violations)
                  => ListedDuplicateCount(r.unique_violations, col)
                       = NonNullRepeats(df.data[col])

\* a unique-key column whose only repeated cell is the null is listed
C12_Witness ==
    /\ ContractReturned
    /\ contract_call.contract.unique_keys = <<"id">>
    /\ contract_call.df.data["id"] = <<None, None, Some(1)>>
    /\ contract_call.ret[1].unique_violations = <<[column |-> "id", duplicate_count |-> 1]>>

\* the type the stated precedence gives a column with a non-null value: the
\* kind of its values decides, nulls do not
TypeByPrecedence(kind) ==
    IF kind = "whole" THEN "integer"
    ELSE IF kind = "decimal" THEN "number"
    ELSE "string"

HasValue(col) == \E i \in 1..Len(col) : col[i] # None

\* C13: the profiler and the contract validator infer the same type for a
\* column, by the precedence integer if all its non-null values are whole
\* numbers (nulls or not), number if a float is present, else string: the
\* profile lists that type, and a declared column type is reported as a
\* mismatch iff it differs from that type.
C13_TypePrecedence ==
    (ContractReturned /\ contract_call.profile # None) =>
        LET df       == contract_call.df
            inferred == contract_call.profile[1].basic_profile.inferred_types
            declared == contract_call.contract.column_types
            reported == contract_call.ret[1].type_mismatches
        IN /\ \A c \in SeqToSet(df.columns) :
                HasValue(df.data[c]) => inferred[c] = TypeByPrecedence(df.kinds[c])
           /\ \A i \in 1..Len(declared) :
                LET c == declared[i][1]
                IN (c \in SeqToSet(df.columns) /\ HasValue(df.data[c])) =>
                     ((\E j \in 1..Len(reported) : reported[j].column = c)
                        <=> declared[i][2] # TypeByPrecedence(df.kinds[c]))

\* a column of whole numbers with a null is profiled as number and fails the
\* declared type integer
C13_Witness ==
    /\ ContractReturned
    /\ contract_call.profile # None
    /\ contract_call.df.kinds["id"] = "whole"
    /\ contract_call.df.data["id"] = <<None, Some(1)>>
    /\ contract_call.profile[1].basic_profile.inferred_types["id"] = "number"
    /\ contract_call.ret[1].type_mismatches =
         <<[column |-> "id", expected |-> "integer", actual |-> "number"]>>

----------------------------------------------------------------------------
(* Properties of the quality gate *)

GateReturned ==
    gate_call.op = "run_quality_gate" /\ gate_call.ret_a # None /\ gate_call.ret_b # None

\* the two runs differ in whether contract validation passed
ValidationDiffers == gate_call.ret_a[1].contract.passed # gate_call.ret_b[1].contract.passed

\* the failures of a verdict that come from other rules than the violation
\* count and the score threshold
OtherFailures(failures) ==
    SelectSeq(failures, LAMBDA f : f.rule \notin {"contract_violations_gt", "quality_threshold"})

----------------------------------------------------------------------------
(* Properties of the alert builder *)

AlertsReturned == alerts_call.op = "build_alerts" /\ alerts_call.ret # None

\* some rule other than the fallback fires on the report: a ratio above its
\* threshold, a column finding, a PII indication, a policy failure, or a
\* failed policy
RuleFires(raw) ==
    LET summary == Get(raw, "summary", EmptyDict)
        columns == Get(raw, "columns", <<>>)
    IN \/ RatioGt(Get(raw, "missing_ratio", Get(summary, "missing_ratio", ZeroRatio)),
                  MISSING_WARN_THRESHOLD)
       \/ RatioGt(Get(raw, "outlier_ratio", Get(raw, "overall_outlier_ratio", ZeroRatio)),
                  OUTLIER_WARN_THRESHOLD)
       \/ RatioGt(Get(summary, "duplicate_ratio", ZeroRatio), DUPLICATE_WARN_THRESHOLD)
       \/ \E i \in 1..Len(columns) :
            \/ Get(columns[i], "drift_severity", "none") \in {"moderate", "severe"}
            \/ "pii_type" \in DOMAIN columns[i]
            \/ RatioGt(Get(columns[i], "missing_ratio", ZeroRatio), MISSING_WARN_THRESHOLD)
       \/ Get(raw, "has_pii", FALSE)
       \/ Get(raw, "pii_column_count", 0) > 0
       \/ Get(raw, "pii_columns", <<>>) # <<>>
       \/ Get(raw, "policy_failures", <<>>) # <<>>
       \/ ~Get(raw, "policy_passed", TRUE)

\* C20: build_alerts never returns an empty list; it returns exactly the one
\* alert (info, ALL_GOOD) iff no other rule fires on the report, and an
\* ALL_GOOD alert is never accompanied by another alert.
C20_NeverEmptyAllGoodAlone ==
    AlertsReturned =>
        LET alerts == alerts_call.ret[1]
        IN /\ alerts # <<>>
           /\ (Len(alerts) = 1 /\ alerts[1].level = "info" /\ alerts[1].code = "ALL_GOOD")
                <=> ~RuleFires(alerts_call.report)
           /\ (\E i \in 1..Len(alerts) : alerts[i].code = "ALL_GOOD") => Len(alerts) = 1

\* a report that has a summary, ratios, a quiet column and an empty failure
\* list, none over a threshold, gets the single ALL_GOOD alert
C20_Witness ==
    /\ AlertsReturned
    /\ alerts_call.ret[1] = <<ALL_GOOD>>
    /\ "summary" \in DOMAIN alerts_call.report
    /\ "missing_ratio" \in DOMAIN alerts_call.report
    /\ Get(alerts_call.report, "columns", <<>>) # <<>>
    /\ "policy_passed" \in DOMAIN alerts_call.report

----------------------------------------------------------------------------
(* Properties of the analysis service *)

\* the request of the state was analysed and answered with a report
Analysed == analyze_call.op = "analyze_dataset" /\ analyze_call.response.status = 200

\* the request of the state was an upload of the table df under a .csv name
Uploaded(df) ==
    /\ analyze_call.op = "analyze_dataset"
    /\ analyze_call.filename.suffix = ".csv"
    /\ analyze_call.content = [kind |-> "csv", df |-> df]

\* the dataset name of the state's request
RequestName == analyze_call.filename.stem

\* the report has the key with the value
Has(report, key, value) == key \in DOMAIN report /\ report[key] = value

\* the report's score, under either name
ReportScore(report) ==
    IF "quality_score" \in DOMAIN report THEN Some(report.quality_score)
    ELSE IF "overall_score" \in DOMAIN report THEN Some(report.overall_score)
    ELSE None

\* the drift result of a report: its key drift, or the report itself, into
\* which main.py merges the drift result
DriftOf(report) == IF "drift" \in DOMAIN report THEN report.drift ELSE report

\* the alerts are exactly one info alert ALL_GOOD
AllGoodAlone(alerts) ==
    Len(alerts) = 1 /\ alerts[1].level = "info" /\ alerts[1].code = "ALL_GOOD"

\* C15: analysing scenario A's table, with no contract and no baseline for
\* its name, is answered with a report of score 100 and label GREEN, whose
\* alerts are exactly one info alert ALL_GOOD and whose drift result has
\* baseline_created true, and the call persists a baseline.
C15_ScenarioA ==
    [][(/\ analyze_call'.op = "analyze_dataset"
        /\ analyze_call'.filename.suffix = ".csv"
        /\ analyze_call'.content = [kind |-> "csv", df |-> ScenarioA]
        /\ contract_files[analyze_call'.filename.stem] = AbsentFile
        /\ baselines[analyze_call'.filename.stem] = AbsentFile)
       => /\ analyze_call'.response.status = 200
          /\ LET report == analyze_call'.response.body
             IN /\ ReportScore(report) = Some(100 * ScoreScale)
                /\ \/ Has(report, "quality_label", "GREEN")
                   \/ Has(report, "label", "GREEN")
                /\ "alerts" \in DOMAIN report /\ AllGoodAlone(report.alerts)
                /\ Has(DriftOf(report), "baseline_created", TRUE)
          /\ baselines'[analyze_call'.filename.stem] # AbsentFile]_vars

\* scenario A was analysed: score 100 and the single alert ALL_GOOD
C15_Witness ==
    /\ Analysed /\ Uploaded(ScenarioA)
    /\ contract_files[RequestName] = AbsentFile
    /\ ReportScore(analyze_call.response.body) = Some(100 * ScoreScale)
    /\ AllGoodAlone(analyze_call.response.body.alerts)
    /\ "baseline_created" \notin DOMAIN analyze_call.response.body
    /\ baselines[RequestName] = AbsentFile

\* the score of the report of an analysis of scenario A's table
ScenarioAScore ==
    ReportScore(ReportBase(baselines, ScenarioA, "sales", 1, isoformat(1)).report)

\* the findings of the report for a column
FindingsFor(report, column) ==
    SelectSeq(Get(report, "pii_columns", <<>>), LAMBDA f : f.column = column)

\* an alert of level warning about PII
IsPiiWarning(alert) ==
    alert.level = "warning" /\ alert.code \in {"PII_DETECTED", "PII_DETECTED_COLUMN"}

\* C16: analysing scenario B's table yields a PII finding for the column
\* email with detected_types exactly ["email"], a PII warning alert, and a
\* score exactly 5 points below the score of scenario A.
C16_ScenarioB ==
    (Analysed /\ Uploaded(ScenarioB))
    => LET report == analyze_call.response.body
       IN /\ Len(FindingsFor(report, "email")) = 1
          /\ FindingsFor(report, "email")[1].detected_types = <<"email">>
          /\ \E i \in 1..Len(report.alerts) : IsPiiWarning(report.alerts[i])
          /\ ReportScore(report) = Some(ScenarioAScore[1] - 5 * ScoreScale)

\* scenario B was analysed: the finding and the warning are there, and the
\* score is the score of scenario A
C16_Witness ==
    /\ Analysed /\ Uploaded(ScenarioB)
    /\ LET report == analyze_call.response.body
       IN /\ report.pii_columns = <<[column |-> "email", detected_types |-> <<"email">>]>>
          /\ \E i \in 1..Len(report.alerts) : IsPiiWarning(report.alerts[i])
          /\ ReportScore(report) = ScenarioAScore

\* the metrics of a report as the policy engine reads them
PolicyMetrics(report) ==
    [missing_ratio         |-> RatioOf(report.missing_ratio),
     duplicate_ratio       |-> RatioOf(report.duplicate_ratio),
     overall_outlier_ratio |-> RatioOf(report.outlier_ratio),
     contract_violations   |-> 0,
     has_drift             |-> FALSE]

\* the dataset's contract file has a policy block of which the report's
\* metrics breach a rule
RuleBreached(file, report) ==
    /\ file # AbsentFile
    /\ file.contract.policy # None
    /\ EvaluateRules(file.contract.policy[1], ReportScore(report)[1], PolicyMetrics(report),
                     [columns |-> <<>>]).failures # <<>>

\* C17: when the dataset's contract has a policy block and the metrics of the
\* analysis breach one of its rules, the report carries a failing verdict:
\* policy not passed, with a non-empty list of failures.
C17_BreachFailsVerdict ==
    (Analysed /\ RuleBreached(contract_files[RequestName], analyze_call.response.body))
    => LET report == analyze_call.response.body
       IN /\ Has(report, "policy_passed", FALSE)
          /\ "policy_failures" \in DOMAIN report /\ report.policy_failures # <<>>

\* a table with two thirds of its cells missing was analysed under a contract
\* that allows a tenth
C17_Witness ==
    /\ Analysed
    /\ RuleBreached(contract_files[RequestName], analyze_call.response.body)
    /\ RatioGt(analyze_call.response.body.missing_ratio, Ratio(1, 10))
    /\ analyze_call.response.body.policy_passed

\* the tick of a timestamp
TickOf(timestamp) ==
    timestamp.sec * TicksPerSecond
    + (IF timestamp.frac = None THEN 0
       ELSE timestamp.frac[1] \div (1000000 \div TicksPerSecond))

\* the points of the stored runs of a dataset, the oldest run first
RECURSIVE PointsOldestFirst(_)
PointsOldestFirst(files) ==
    IF files = {} THEN <<>>
    ELSE LET last == CHOOSE f \in files :
                       \A g \in files : TickOf(g.data.timestamp) <= TickOf(f.data.timestamp)
         IN Append(PointsOldestFirst(files \ {last}), Point(last.data))

\* C18: a successful analysis of a dataset name appends exactly one point to
\* the name's history and leaves the earlier points as they were: the
\* snapshot of the n-th analysis lists the n points in the order the analyses
\* were run.
C18_AppendsOldestFirst ==
    [][(analyze_call'.op = "analyze_dataset" /\ analyze_call'.response.status = 200)
       => LET name   == analyze_call'.filename.stem
              report == analyze_call'.response.body
          IN /\ Len(report.history_snapshot.points) = Cardinality(history[name]) + 1
             /\ report.history_snapshot.points
                  = Append(PointsOldestFirst(history[name]), Point(report))]_vars

\* the second analysis of a name: its snapshot has two points
C18_Witness ==
    /\ Analysed
    /\ Cardinality(history[RequestName]) = 2
    /\ Len(analyze_call.response.body.history_snapshot.points) = 2

\* an input error: the file name does not end in .csv (in any case of the
\* letters), or the content is no table
InputError(filename, content) ==
    \/ filename.suffix \notin {".csv", ".CSV"}
    \/ content.kind \in {"empty", "garbled"}

\* C19: a request with an input error is answered with a failure, and it
\* neither creates or changes a baseline nor appends a history point.
C19_InputErrorAborts ==
    [][(/\ analyze_call'.op = "analyze_dataset"
        /\ InputError(analyze_call'.filename, analyze_call'.content))
       => /\ analyze_call'.response.status = 400
          /\ baselines' = baselines
          /\ history' = history]_vars

\* an upload that cannot be parsed was rejected after a successful analysis
C19_Witness ==
    /\ analyze_call.op = "analyze_dataset"
    /\ analyze_call.filename.suffix = ".csv"
    /\ analyze_call.content.kind = "empty"
    /\ analyze_call.response.status = 400
    /\ Cardinality(history[RequestName]) = 1

----------------------------------------------------------------------------
(* Properties of the alert builder on the other components' results *)

\* build_alerts has run on a report made from the verdict of the state
VerdictAlerted == PolicyReturned /\ alerts_call.op = "build_alerts"

\* the error alerts about policy failures
PolicyErrorAlerts(alerts) ==
    {i \in 1..Len(alerts) :
        alerts[i].level = "error" /\ alerts[i].code \notin {"DRIFT_DETECTED", "PIPELINE_FAILED"}}

\* C21: on every verdict of the policy engine, build_alerts completes without
\* raising and emits exactly one error alert per entry of the verdict's
\* failures: as many policy error alerts as failures.
C21_OneErrorAlertPerFailure ==
    VerdictAlerted
    => /\ alerts_call.outcome.raised = ""
       /\ Cardinality(PolicyErrorAlerts(alerts_call.outcome.alerts))
            = Len(policy_call.ret[1].failures)

\* a verdict with two failures was handed to build_alerts as policy_failures,
\* and the call raised
C21_Witness ==
    /\ VerdictAlerted
    /\ Len(policy_call.ret[1].failures) = 2
    /\ alerts_call.report = ListedVerdict(policy_call.ret[1])
    /\ alerts_call.outcome.raised = "AttributeError"

\* the drift columns a report carries
DriftColumnsOf(report) ==
    IF "drift" \in DOMAIN report THEN report.drift.columns ELSE Get(report, "columns", <<>>)

\* the drift alerts about a column
DriftAlertsAbout(alerts, column) ==
    {i \in 1..Len(alerts) : alerts[i].code = "DRIFT_DETECTED" /\ alerts[i].subject = {column}}

\* C22: for every column the drift analyzer reports with psi_severity
\* moderate or severe, build_alerts on the report assembled from the
\* analyzer's output emits one drift alert for the column: a warning for
\* moderate, an error for severe.
C22_DriftAlertPerColumn ==
    (alerts_call.op = "build_alerts")
    => LET columns == DriftColumnsOf(alerts_call.report)
           alerts  == alerts_call.ret[1]
       IN \A k \in 1..Len(columns) :
            columns[k].psi_severity \in {"moderate", "severe"}
            => /\ Cardinality(DriftAlertsAbout(alerts, columns[k].column)) = 1
               /\ \A i \in DriftAlertsAbout(alerts, columns[k].column) :
                    alerts[i].level = IF columns[k].psi_severity = "severe"
                                      THEN "error" ELSE "warning"

\* a report whose columns hold a severe column of the analyzer got the single
\* alert ALL_GOOD
C22_Witness ==
    /\ alerts_call.op = "build_alerts"
    /\ "columns" \in DOMAIN alerts_call.report
    /\ \E k \in 1..Len(alerts_call.report.columns) :
         /\ alerts_call.report.columns[k].psi_severity = "severe"
         /\ alerts_call.report.columns[k].drift
    /\ alerts_call.ret[1] = <<ALL_GOOD>>

----------------------------------------------------------------------------
(* Properties of the profiler *)

\* the profiler has run on the table of the state
Profiled == contract_call.op = "validate_contract" /\ contract_call.profile # None

\* the null cells of a table
NullCells(df) ==
    {<<c, i>> \in SeqToSet(df.columns) \X (1..RowCount(df)) : df.data[c][i] = None}

\* C23: profile_dataset returns missing_ratio = null cells / (rows x columns),
\* a ratio between 0 and 1 that is 0 for a table without null cells; for an
\* empty table (rows x columns = 0) missing_ratio and duplicate_ratio are 0.
C23_MissingRatio ==
    Profiled
    => LET df      == contract_call.df
           summary == contract_call.profile[1].summary
           cells   == RowCount(df) * Len(df.columns)
           nulls   == Cardinality(NullCells(df))
       IN /\ summary.missing_ratio[2] > 0
          /\ 0 <= summary.missing_ratio[1]
          /\ summary.missing_ratio[1] <= summary.missing_ratio[2]
          /\ cells > 0 => summary.missing_ratio[1] * cells = nulls * summary.missing_ratio[2]
          /\ nulls = 0 => summary.missing_ratio[1] = 0
          /\ cells = 0 => /\ summary.missing_ratio[1] = 0
                          /\ summary.duplicate_ratio[2] > 0
                          /\ summary.duplicate_ratio[1] = 0

\* a table of two columns and three rows with two null cells was profiled
C23_Witness ==
    /\ Profiled
    /\ Len(contract_call.df.columns) = 2
    /\ RowCount(contract_call.df) = 3
    /\ Cardinality(NullCells(contract_call.df)) = 2
    /\ contract_call.profile[1].summary.missing_ratio = Ratio(2, 6)

\* the reorderings of n rows
RowOrders(n) == {p \in [1..n -> 1..n] : \A i, j \in 1..n : p[i] = p[j] => i = j}

\* the table with its rows in the order p
Permuted(df, p) ==
    [df EXCEPT !.data = [c \in DOMAIN df.data |-> [i \in 1..RowCount(df) |-> df.data[c][p[i]]]]]

\* C24: for every table and every reordering of its rows, profile_dataset
\* returns the same duplicate_rows and the same duplicate_ratio.
C24_DuplicatesPermutationInvariant ==
    Profiled
    => \A p \in RowOrders(RowCount(contract_call.df)) :
         LET summary  == contract_call.profile[1].summary
             permuted == profile_dataset(Permuted(contract_call.df, p)).summary
         IN /\ permuted.duplicate_rows = summary.duplicate_rows
            /\ permuted.duplicate_ratio = summary.duplicate_ratio

\* a table whose first and third row are equal and differ from the second was
\* profiled: one duplicate row, also when the equal rows are next to each other
C24_Witness ==
    /\ Profiled
    /\ RowCount(contract_call.df) = 3
    /\ Row(contract_call.df, 1) = Row(contract_call.df, 3)
    /\ Row(contract_call.df, 1) # Row(contract_call.df, 2)
    /\ contract_call.profile[1].summary.duplicate_rows = 1
    /\ contract_call.profile[1].summary.duplicate_ratio = Ratio(1, 3)

----------------------------------------------------------------------------
(* Properties of the outlier detector *)

\* the numeric columns of a table that hold a value, in the table's order
MeasuredIn(df) ==
    SelectSeq(df.columns,
              LAMBDA c : /\ df.dtypes[c] \in {"int64", "float64"}
                         /\ \E i \in 1..RowCount(df) : df.data[c][i] # None)

\* the values of a column, in row order
ValuesAt(df, c) ==
    LET cells == SelectSeq(df.data[c], LAMBDA cell : cell # None)
    IN [i \in 1..Len(cells) |-> cells[i][1]]

\* n times the deviation of the i-th value from the mean of the values
ScaledDeviation(values, i) == Len(values) * values[i] - SumSeq(values)

\* the values that lie more than three population standard deviations from
\* the mean: n (n v - S)^2 > 9 * sum of (n w - S)^2 over the values w
ExpectedOutliers(values) ==
    LET spread == SumSeq([i \in 1..Len(values) |->
                            ScaledDeviation(values, i) * ScaledDeviation(values, i)])
    IN {i \in 1..Len(values) :
          Len(values) * ScaledDeviation(values, i) * ScaledDeviation(values, i) > 9 * spread}

\* C25: for every numeric column with a non-null value detect_outliers reports
\* outlier_count 0 when all values are equal (standard deviation 0) and
\* otherwise the number of values more than 3 standard deviations from the
\* mean; outlier_count <= value_count, and overall_outlier_ratio is
\* total_outliers / total_numeric_values within [0, 1], 0 without values.
C25_OutlierCounts ==
    (analyze_call.op = "detect_outliers" /\ analyze_call.ret # None)
    => LET df       == analyze_call.df
           ret      == analyze_call.ret[1]
           measured == MeasuredIn(df)
       IN /\ Len(ret.columns) = Len(measured)
          /\ \A k \in 1..Len(measured) :
               LET entry  == ret.columns[k]
                   values == ValuesAt(df, measured[k])
               IN /\ entry.column = measured[k]
                  /\ entry.value_count = Len(values)
                  /\ (\A i, j \in 1..Len(values) : values[i] = values[j])
                        => entry.outlier_count = 0
                  /\ entry.outlier_count = Cardinality(ExpectedOutliers(values))
                  /\ entry.outlier_count <= entry.value_count
          /\ ret.total_outliers = SumSeq([k \in 1..Len(measured) |-> ret.columns[k].outlier_count])
          /\ ret.total_numeric_values = SumSeq([k \in 1..Len(measured) |-> ret.columns[k].value_count])
          /\ ret.overall_outlier_ratio[2] > 0
          /\ 0 <= ret.overall_outlier_ratio[1]
          /\ ret.overall_outlier_ratio[1] <= ret.overall_outlier_ratio[2]
          /\ ret.total_numeric_values > 0
                => ret.overall_outlier_ratio = Ratio(ret.total_outliers, ret.total_numeric_values)
          /\ ret.total_numeric_values = 0 => ret.overall_outlier_ratio[1] = 0

\* a column of zeros and one 10 was measured beside a column of equal values:
\* the 10 is the one outlier, the column of equal values has none
C25_Witness ==
    /\ analyze_call.op = "detect_outliers"
    /\ analyze_call.ret # None
    /\ analyze_call.df.columns = <<"x", "k">>
    /\ Len(analyze_call.ret[1].columns) = 2
    /\ analyze_call.ret[1].columns[1].outlier_count = 1
    /\ analyze_call.ret[1].columns[1].value_count = OutlierRows
    /\ analyze_call.ret[1].columns[2].outlier_count = 0
    /\ analyze_call.ret[1].columns[2].value_count = OutlierRows
    /\ analyze_call.ret[1].overall_outlier_ratio = Ratio(1, 2 * OutlierRows)

----------------------------------------------------------------------------
(* Properties of the PII detector *)

\* the texts of a string column; the sample of a column of at most sample_size
\* values is all of them
SampledTexts(df, c) ==
    {TextLiteral(df.data[c][i][1]) : i \in {j \in 1..RowCount(df) : df.data[c][j] # None}}

\* the pattern types that match a sampled value of a string column
MatchedTypes(df, c) ==
    {type \in {"email", "phone", "id_number"} :
        \E text \in SampledTexts(df, c) :
           \/ type = "email" /\ EMAIL_RE(text)
           \/ type = "phone" /\ PHONE_RE(text)
           \/ type = "id_number" /\ ID_RE(text)}

\* C26: detect_pii reports a string column iff a pattern matched a sampled
\* value of it, with detected_types exactly the types that matched;
\* pii_column_count is the number of reported columns and has_pii is true iff
\* it is positive.
C26_PiiColumns ==
    (analyze_call.op = "detect_pii" /\ analyze_call.ret # None)
    => LET df  == analyze_call.df
           ret == analyze_call.ret[1]
           reported == {ret.pii_columns[k].column : k \in 1..Len(ret.pii_columns)}
       IN /\ Cardinality(reported) = Len(ret.pii_columns)
          /\ reported \subseteq SeqToSet(df.columns)
          /\ \A c \in SeqToSet(df.columns) :
               df.dtypes[c] = "object" => (c \in reported <=> MatchedTypes(df, c) # {})
          /\ \A k \in 1..Len(ret.pii_columns) :
               /\ df.dtypes[ret.pii_columns[k].column] = "object"
               /\ SeqToSet(ret.pii_columns[k].detected_types)
                    = MatchedTypes(df, ret.pii_columns[k].column)
               /\ Len(ret.pii_columns[k].detected_types)
                    = Cardinality(MatchedTypes(df, ret.pii_columns[k].column))
          /\ ret.pii_column_count = Cardinality(reported)
          /\ ret.has_pii <=> ret.pii_column_count > 0

\* a column with a phone number and a long number beside a column with an
\* email address: both are reported, the first with phone and id_number
C26_Witness ==
    /\ analyze_call.op = "detect_pii"
    /\ analyze_call.ret # None
    /\ analyze_call.df.columns = <<"contact", "note">>
    /\ analyze_call.df.data["contact"] = <<Some(2), None, Some(3)>>
    /\ analyze_call.ret[1].pii_columns
         = <<[column |-> "contact", detected_types |-> <<"phone", "id_number">>],
             [column |-> "note", detected_types |-> <<"email">>]>>
    /\ analyze_call.ret[1].pii_column_count = 2
    /\ analyze_call.ret[1].has_pii

----------------------------------------------------------------------------
(* Properties of the contracts directory *)

\* the name a contract is stored under
StoredUnder(contract) == Get(contract, "dataset_name", "dataset")

\* the step is a call of persist_contract_suggestion
PersistStep ==
    /\ contract_call' # contract_call \/ contract_files' # contract_files
    /\ contract_call'.op = "persist_contract_suggestion"

----------------------------------------------------------------------------
(* Properties of the PSI severity rule *)

\* the severities the policy of the call disallows
DisallowedSeverities ==
    LET fail_on == FailOnOf(policy_call.contract[1].policy[1])
    IN IF fail_on.psi_severity_in = None THEN {} ELSE SeqToSet(fail_on.psi_severity_in[1])

\* the positions of the drift columns with a disallowed severity
DisallowedColumns ==
    {i \in 1..Len(policy_call.drift.columns) :
        policy_call.drift.columns[i].psi_severity \in DisallowedSeverities}

\* C28: the psi_severity_in rule contributes at most one failure: one for the
\* first drift column, in reported order, whose psi_severity is in the
\* configured set, and none when no column matches or the set is empty.
C28_PsiRuleStopsAtFirst ==
    (PolicyReturned /\ policy_call.contract # None /\ policy_call.contract[1].policy # None)
    => LET failures == policy_call.ret[1].failures
           entries  == {i \in 1..Len(failures) : failures[i].rule = "psi_severity_in"}
       IN /\ Cardinality(entries) <= 1
          /\ DisallowedColumns = {} <=> entries = {}
          /\ \A i \in entries :
               LET first == CHOOSE k \in DisallowedColumns : \A j \in DisallowedColumns : k <= j
               IN /\ i = Len(failures)
                  /\ failures[i].subject = policy_call.drift.columns[first].column
                  /\ failures[i].detail = policy_call.drift.columns[first].psi_severity

\* a moderate column before a severe one under a policy that disallows both:
\* one failure, about the first column
C28_Witness ==
    /\ PolicyReturned
    /\ policy_call.contract # None
    /\ policy_call.contract[1].policy # None
    /\ DisallowedSeverities = {"severe", "moderate"}
    /\ Len(policy_call.drift.columns) = 2
    /\ policy_call.drift.columns[1].psi_severity = "moderate"
    /\ policy_call.drift.columns[2].psi_severity = "severe"
    /\ FailureCount(policy_call.ret[1].failures, "psi_severity_in") = 1
    /\ policy_call.ret[1].failures[Len(policy_call.ret[1].failures)].subject = "c1"

----------------------------------------------------------------------------
(* Properties of concurrent analyses *)

\* both requests have finished
BothDone ==
    /\ analyze_call.op = "concurrent"
    /\ \A p \in Procs : analyze_call.procs[p].pc = "done"

\* C29: two concurrent analyses of a new dataset name end, in every
\* interleaving, with a persisted baseline that is the baseline built from one
\* of the two tables, and with both history points.
C29_LastWriteWins ==
    BothDone
    => /\ \E p \in Procs :
            baselines["sales"] = JsonFile(NewBaseline("sales", analyze_call.procs[p].df))
       /\ Cardinality(history["sales"]) = Cardinality(Procs)

\* both requests found no baseline and wrote one; the shorter dump was written
\* last, and the file that is left does not parse
C29_Witness ==
    /\ BothDone
    /\ \A p \in Procs : analyze_call.procs[p].baseline = None
    /\ baselines["sales"].kind = "corrupt"
    /\ _load_baseline(baselines, "sales") = None
    /\ Cardinality(history["sales"]) = Cardinality(Procs)

----------------------------------------------------------------------------
(* Properties of the persisted state of several dataset names *)

\* the file at a path is absent or holds the given state
AbsentOr(path, state) == baselines[path] \in {AbsentFile, JsonFile(state)}

\* C30: persisted state is isolated per dataset name: what is stored where a
\* name's drift baseline, schema baseline or run history is read from was
\* saved for that name and as that kind of state, whatever was analysed or
\* saved for other names.
C30_IsolatedPerName ==
    \A dataset_name \in IsolationNames :
       /\ AbsentOr(_get_baseline_path(dataset_name), StateOf("drift", dataset_name))
       /\ AbsentOr(_schema_path(dataset_name), StateOf("schema", dataset_name))
       /\ \A run \in history[_dataset_dir(dataset_name)] :
             run.data = StateOf("run", dataset_name)

\* the schema check of sales read the drift baseline of schema_sales as its
\* schema baseline
C30_Witness ==
    /\ drift_call.op = "detect_schema_changes"
    /\ drift_call.dataset_name = <<"sales">>
    /\ drift_call.read = Some(StateOf("drift", <<"schema_", "sales">>))

====
